---- MODULE Spec2Model ----
(***************************************************************************)
(* Browser pool service (services/browser-pool-service-node): the pool     *)
(* manager (BrowserPool, BrowserSession), the service entry point          *)
(* (BrowserPoolService) and the two control planes, as a state machine.    *)
(*                                                                         *)
(* Node.js runs one handler at a time; an async function runs from one     *)
(* await to the next without interruption.  Every action below is one such *)
(* run: from the arrival of an event (a request, a timer, an engine        *)
(* completion, an engine disconnection) to the next await on the engine.   *)
(* A promise continuation that awaits only an already settled promise      *)
(* (the method wrappers of setupEventBroadcasting, the callers' replies)   *)
(* runs in the same turn of the event loop and is part of the same action. *)
(* The browser engine (Playwright) is the environment: each of its         *)
(* operations completes with success or failure, or never.                 *)
(***************************************************************************)
EXTENDS Integers, Sequences, FiniteSets, TLC

\* config.BROWSER_TIMEOUT in clock ticks; a tick is 30 seconds, the least
\* timeout validate() accepts
BrowserTimeout == 1
\* config.SESSION_CLEANUP_INTERVAL in clock ticks
CleanupInterval == 1

\* setupHeartbeat: the check period (25000 ms) and the silence after which
\* a connection is closed (60000 ms), in units of 5 seconds
HeartbeatTicks == 5
PingTimeoutTicks == 12

\* bounds of the model
MaxTime == 2      \* the clock stops here
MaxSessions == 2  \* session ids ever allocated
MaxEngines == 3   \* engines ever launched
MaxPages == 1     \* page ids ever allocated
MaxCalls == 2     \* requests in flight at once
MaxSweeps == 1    \* reaper sweeps in flight at once
MaxConns == 1     \* WebSocket connections ever accepted
MaxWsTime == 16   \* the clock of the WebSocket server stops here

Sids == 1..MaxSessions
Eids == 1..MaxEngines
Pids == 1..MaxPages
Calls == 1..MaxCalls
Sweeps == 1..MaxSweeps
Conns == 1..MaxConns

VARIABLES
  planes,      \* the ingress routes this specification exercises ("late":
               \* callers go on calling the pool's methods during the drain;
               \* "paced": the caller reads each answer before its next call)
  serial,      \* TRUE: the callers issue one operation at a time
  keep,        \* TRUE: a settled request stays visible until it is retired
  maxBrowsers, \* BrowserPool.maxBrowsers, read from the configuration
  peers,       \* the clients that connect to the WebSocket server
  fleet,       \* the engine ids the launches of this specification draw from
  phase,       \* position of BrowserPoolService.start()
  wired,       \* setupEventBroadcasting has replaced the pool's methods
  shut,        \* BrowserPoolService.shutdown(): "no", "inProgress", "complete"
  exited,      \* process.exit was reached
  now,         \* the clock (new Date())
  due,         \* the cleanup interval has fired and its callback has not run yet
  cleanupTask, \* BrowserPool.cleanupTask is set
  browsers,    \* BrowserPool.browsers: sequence of engine ids
  engines,     \* engine id -> "none" | "up" | "disconnected" | "closed"
  active,      \* BrowserPool.activeSessions: the session ids in the table
  sess,        \* session id -> the BrowserSession object (also after removal)
  pg,          \* page id -> the engine page
  calls,       \* the requests in flight, one record per slot
  sweeps,      \* the _cleanupExpiredSessions invocations in flight
  stopPc,      \* position of BrowserPool.stop()
  stopSnap,    \* the sessions stop() called close() on (sessionPromises)
  stopPages,   \* of those, the ones whose close() awaits its page closes
  stopCtx,     \* of those, the ones whose close() awaits context.close()
  stopEng,     \* the engines whose browser.close() stop() awaits
  createdEv,   \* session id -> number of session.created broadcasts
  closedEv,    \* session id -> number of session.closed broadcasts
  pcreatedEv,  \* page id -> number of page.created broadcasts
  pclosedEv,   \* page id -> number of page.closed broadcasts
  conns,       \* connection id -> the WebSocket and its entry of clients
               \* (rx: a bit that flips at every broadcast frame sent to it;
               \* rq: one that flips at every browser-action message read
               \* from it; rs: one that flips at every browser-action-result
               \* or error frame sent to it)
  wsNow,       \* Date.now() of the WebSocket server, in units of 5 seconds
  lastBc       \* the latest call of broadcast(): its topic, and a bit that
               \* flips at every call

vars == <<planes, serial, keep, maxBrowsers, peers, fleet, conns, wsNow, lastBc,
          phase, wired, shut, exited, now, due, cleanupTask,
          browsers, engines, active, sess, pg, calls, sweeps, stopPc,
          stopSnap, stopPages, stopCtx, stopEng, createdEv, closedEv,
          pcreatedEv, pclosedEv>>

svcVars == <<phase, wired, shut, exited>>
stopVars == <<stopPc, stopSnap, stopPages, stopCtx, stopEng>>
evVars == <<createdEv, closedEv, pcreatedEv, pclosedEv>>
pageEv == <<pcreatedEv, pclosedEv>>
modeVars == <<planes, serial, keep, maxBrowsers, peers, fleet>>
wsVars == <<conns, wsNow, lastBc>>
wsEnv == <<wsNow, lastBc>>

----------------------------------------------------------------------------
\* Helpers

Range(f) == {f[i] : i \in DOMAIN f}

Min(S) == CHOOSE x \in S : \A y \in S : x <= y

RECURSIVE SortedSeq(_)
SortedSeq(S) == IF S = {} THEN <<>> ELSE <<Min(S)>> \o SortedSeq(S \ {Min(S)})

Remove(seq, x) == SelectSeq(seq, LAMBDA y : y # x)

Bump(n) == IF n < 2 THEN n + 1 ELSE 2

NoSession == [eng |-> 0, last |-> 0, pages |-> {}, ctx |-> "none", closeReq |-> FALSE]
NoPage == [sid |-> 0, st |-> "none"]
NoCall == [op |-> "none", pc |-> "idle", plane |-> "none", wr |-> FALSE,
           eng |-> 0, sid |-> 0, pid |-> 0, url |-> FALSE, res |-> "none",
           reply |-> "none", out |-> <<>>, conn |-> 0, ord |-> 0]
NoSweep == [pc |-> "idle", exp |-> <<>>, i |-> 0, wr |-> FALSE]
NoConn == [st |-> "none", by |-> "none", reg |-> FALSE, subs |-> {},
           lastPing |-> 0, timer |-> FALSE, beat |-> 0, frame |-> "none",
           rx |-> 0, rq |-> 0, rs |-> 0, succ |-> "none"]

UnusedSids == {s \in Sids : sess[s].ctx = "none"}
UnusedEids == {e \in fleet : engines[e] = "none"}
UnusedPids == {p \in Pids : pg[p].st = "none"}

InFlight(c) == calls[c].pc \notin {"idle", "done"}
IdleSlots == {c \in Calls : calls[c].pc = "idle"}
BusySweeps == {k \in Sweeps : sweeps[k].pc \notin {"idle", "done"}}

\* Nothing of the program is in flight: no request, no sweep, no drain.
Quiet ==
  /\ \A c \in Calls : ~InFlight(c)
  /\ BusySweeps = {}
  /\ stopPc \in {"idle", "done"}

\* BrowserPool.start() has returned (the service may have failed later).
PoolStarted == phase \in {"pool", "grpc", "running", "failedGrpc", "failedWs"}

\* Which ingress accepts a new request.
PlaneOpen(p) ==
  /\ ~exited
  /\ p \in planes
  /\ CASE p = "api"  -> phase = "running" /\ (shut = "no" \/ "late" \in planes)
       [] p = "grpc" -> phase \in {"grpc", "running"} /\ shut = "no"
       [] p = "ws"   -> phase = "running" /\ shut = "no"
       [] OTHER      -> FALSE
  /\ serial => Quiet
  /\ "paced" \in planes => \A c \in Calls : calls[c].pc = "idle"

----------------------------------------------------------------------------
\* The replies of the two control planes

\* A gRPC server that answers every failure with INTERNAL.
GrpcReplyFlat(op, res) == IF res \in {"ok", "true"} THEN "OK" ELSE "INTERNAL"

\* BrowserPoolGrpcServer: the status a handler passes to its callback.
GrpcReply(op, res) ==
  CASE op = "createSession" ->
         IF res = "ok" THEN "OK" ELSE "RESOURCE_EXHAUSTED"
    [] op = "closeSession" -> "OK"
    [] op = "getSession" -> IF res = "ok" THEN "OK" ELSE "NOT_FOUND"
    [] op \in {"getStats", "healthCheck"} -> "OK"
    [] op = "createPage" -> IF res = "ok" THEN "OK" ELSE "INTERNAL"
    [] op = "closePage" ->
         IF res = "true" THEN "OK:success=true" ELSE "OK:success=false"
    [] OTHER -> CASE res = "notfound" -> "NOT_FOUND"
                  [] res = "ok" -> "OK:success=true"
                  [] OTHER -> "OK:success=false"

\* BrowserPoolWebSocketServer.handleBrowserAction: success flag of the result.
WsReply(res) == IF res = "ok" THEN "result:true" ELSE "result:false"

\* The topic handleBrowserAction broadcasts after a successful action.
ActionTopic(op) ==
  CASE op = "createSession" -> "browser.create-session"
    [] op = "createPage" -> "browser.create-page"
    [] op = "navigate" -> "browser.navigate"
    [] op = "click" -> "browser.click"
    [] OTHER -> "browser.type"

\* What the caller's handler does once the pool operation has settled:
\* the gRPC handlers call back; handleBrowserAction sends the result and,
\* on success, broadcasts browser.<action>; a direct caller gets the value.
HandlerOut(plane, op, res) ==
  CASE plane = "grpc" -> <<"reply">>
    [] plane = "ws" ->
         IF res = "ok" THEN <<"reply", ActionTopic(op)>> ELSE <<"reply">>
    [] OTHER -> <<>>

HandlerReply(plane, op, res) ==
  CASE plane = "grpc" -> GrpcReply(op, res)
    [] plane = "ws" -> WsReply(res)
    [] OTHER -> res

\* The request r settles with result res after the pool published
\* the topics in poolOut.
Settled(r, res, poolOut) ==
  IF keep
  THEN [r EXCEPT !.pc = "done",
                 !.res = res,
                 !.reply = HandlerReply(r.plane, r.op, res),
                 !.out = poolOut \o HandlerOut(r.plane, r.op, res)]
  ELSE NoCall

----------------------------------------------------------------------------
\* BrowserSession.close(), shared by closeSession, the reaper and stop()

SessionCloseStart(s) == IF sess[s].pages # {} THEN "closePages" ELSE "closeCtx"

\* The synchronous part of close(): with no page to close it clears the
\* page map and calls context.close() at once.
SessionAfterCloseCall(s) ==
  IF sess[s].pages # {} THEN sess[s] ELSE [sess[s] EXCEPT !.closeReq = TRUE]

\* The page closes of one close() have settled (ok: the pages are closed;
\* otherwise the error is logged): the map is cleared, context.close() called.
PagesAfterClose(s, ok) ==
  [p \in Pids |-> IF p \in sess[s].pages /\ ok
                  THEN [pg[p] EXCEPT !.st = "closed"] ELSE pg[p]]

SessionAfterPages(s) == [sess[s] EXCEPT !.pages = {}, !.closeReq = TRUE]

\* context.close() has settled.
SessionAfterCtx(s, ok) ==
  IF ok THEN [sess[s] EXCEPT !.ctx = "closed"] ELSE sess[s]

----------------------------------------------------------------------------
\* BrowserPoolWebSocketServer.stop()

\* ws.close(1012) on every registered connection, then clients.clear().
WsStoppedFrom(cs) ==
  [k \in Conns |->
     IF cs[k].reg
     THEN [cs[k] EXCEPT !.reg = FALSE,
                        !.st = IF @ = "open" THEN "closing" ELSE @,
                        !.by = IF cs[k].st = "open" THEN "stop" ELSE @]
     ELSE cs[k]]

WsStopped == WsStoppedFrom(conns)

----------------------------------------------------------------------------
\* BrowserPoolService.start() and BrowserPool.start()

\* shutdown() up to its await, but for wsServer.stop(): the flag is set and
\* browserPool.stop() runs up to its first await.
ShutdownPool ==
  /\ shut' = "inProgress"
  /\ cleanupTask' = FALSE
  /\ due' = FALSE
  /\ stopPc' = "sessions"
  /\ stopSnap' = active
  /\ stopPages' = {s \in active : sess[s].pages # {}}
  /\ stopCtx' = {s \in active : sess[s].pages = {}}
  /\ sess' = [s \in Sids |-> IF s \in active THEN SessionAfterCloseCall(s)
                             ELSE sess[s]]
  /\ UNCHANGED stopEng

ShutdownBegin ==
  /\ conns' = WsStopped
  /\ ShutdownPool

\* Engines launched so far: the counter i of the launch loop of start().
Launched == Cardinality({e \in Eids : engines[e] # "none"})

\* One iteration of the launch loop of BrowserPool.start().
StartLaunch(ok) ==
  /\ phase = "starting" /\ shut = "no" /\ ~exited
  /\ IF ok
     THEN /\ UnusedEids # {}
          /\ LET e == Min(UnusedEids) IN
             /\ engines' = [engines EXCEPT ![e] = "up"]
             /\ browsers' = Append(browsers, e)
             /\ phase' = IF Launched + 1 >= maxBrowsers THEN "pool"
                         ELSE "starting"
             /\ cleanupTask' = (Launched + 1 >= maxBrowsers)
          /\ UNCHANGED <<shut, due, stopVars, sess, conns>>
     ELSE /\ phase' = "failedLaunch"
          /\ ShutdownBegin
          /\ UNCHANGED <<engines, browsers>>
  /\ UNCHANGED <<modeVars, wsEnv, wired, exited, now, active, pg, calls, sweeps, evVars>>

StartGrpc(ok) ==
  /\ phase = "pool" /\ shut = "no" /\ ~exited
  /\ IF ok
     THEN /\ phase' = "grpc"
          /\ UNCHANGED <<shut, due, cleanupTask, stopVars, sess, conns>>
     ELSE /\ phase' = "failedGrpc"
          /\ ShutdownBegin
  /\ UNCHANGED <<modeVars, wsEnv, wired, exited, now, browsers, engines, active, pg,
                 calls, sweeps, evVars>>

StartWs(ok) ==
  /\ phase = "grpc" /\ shut = "no" /\ ~exited
  /\ IF ok
     THEN /\ phase' = "running"
          /\ wired' = TRUE
          /\ UNCHANGED <<shut, due, cleanupTask, stopVars, sess, conns>>
     ELSE /\ phase' = "failedWs"
          /\ wired' = wired
          /\ ShutdownBegin
  /\ UNCHANGED <<modeVars, wsEnv, exited, now, browsers, engines, active, pg,
                 calls, sweeps, evVars>>

----------------------------------------------------------------------------
\* BrowserPool._launchBrowser and the 'disconnected' handler it installs

\* A 'disconnected' handler that leaves the engine in the list.
DisconnectKept(e) ==
  /\ ~exited
  /\ engines[e] = "up"
  /\ engines' = [engines EXCEPT ![e] = "disconnected"]
  /\ UNCHANGED <<modeVars, wsVars, svcVars, now, due, cleanupTask, browsers, active,
                 sess, pg, calls, sweeps, stopVars, evVars>>

\* The engine e has disconnected (crashed, or was closed): the handler
\* removes it from the list if it is still there.
Disconnect(e) ==
  /\ ~exited
  /\ engines[e] = "up"
  /\ engines' = [engines EXCEPT ![e] = "disconnected"]
  /\ browsers' = Remove(browsers, e)
  /\ UNCHANGED <<modeVars, wsVars, svcVars, now, due, cleanupTask, active, sess, pg,
                 calls, sweeps, stopVars, evVars>>

----------------------------------------------------------------------------
\* BrowserPool.createSession, with the wrapper of setupEventBroadcasting

NewCall(p, op) == [NoCall EXCEPT !.op = op, !.plane = p, !.wr = wired]

\* The capacity check of createSession.
AtCapacityOffByOne == Cardinality(active) > maxBrowsers

AtCapacity == Cardinality(active) >= maxBrowsers

\* The capacity check, and the choice of the engine when one is listed.
CreateSessionBegin(c, p) ==
  /\ IdleSlots # {} /\ c = Min(IdleSlots)
  /\ PlaneOpen(p)
  /\ LET r == NewCall(p, "createSession") IN
     calls' = [calls EXCEPT ![c] =
       IF AtCapacity
       THEN Settled(r, "capacity", <<>>)
       ELSE IF Len(browsers) = 0
            THEN [r EXCEPT !.pc = "launch"]
            ELSE [r EXCEPT !.pc = "newContext", !.eng = browsers[1]]]
  /\ UNCHANGED <<modeVars, wsVars, svcVars, now, due, cleanupTask, browsers, engines,
                 active, sess, pg, sweeps, stopVars, evVars>>

\* The launch createSession awaited has settled; on success the engine is
\* appended and the first engine of the list is taken.
CreateSessionLaunched(c, ok) ==
  /\ ~exited
  /\ calls[c].op = "createSession" /\ calls[c].pc = "launch"
  /\ IF ok
     THEN /\ UnusedEids # {}
          /\ LET e == Min(UnusedEids) IN
             /\ engines' = [engines EXCEPT ![e] = "up"]
             /\ browsers' = Append(browsers, e)
             /\ calls' = [calls EXCEPT ![c].pc = "newContext",
                                       ![c].eng = Append(browsers, e)[1]]
     ELSE /\ calls' = [calls EXCEPT ![c] = Settled(calls[c], "error", <<>>)]
          /\ UNCHANGED <<engines, browsers>>
  /\ UNCHANGED <<modeVars, wsVars, svcVars, now, due, cleanupTask, active, sess, pg,
                 sweeps, stopVars, evVars>>

\* browser.newContext() has settled; on success the session is registered
\* under a fresh id and, through the wrapper, session.created is broadcast.
CreateSessionContext(c, ok) ==
  /\ ~exited
  /\ calls[c].op = "createSession" /\ calls[c].pc = "newContext"
  /\ ok => engines[calls[c].eng] = "up" /\ UnusedSids # {}
  /\ IF ok
     THEN LET s == Min(UnusedSids) IN
          /\ sess' = [sess EXCEPT ![s] = [eng |-> calls[c].eng, last |-> now,
                                          pages |-> {}, ctx |-> "open",
                                          closeReq |-> FALSE]]
          /\ active' = active \cup {s}
          /\ createdEv' = IF calls[c].wr
                          THEN [createdEv EXCEPT ![s] = Bump(@)] ELSE createdEv
          /\ calls' = [calls EXCEPT ![c] =
               Settled([calls[c] EXCEPT !.sid = s], "ok",
                       IF calls[c].wr THEN <<"session.created">> ELSE <<>>)]
     ELSE /\ calls' = [calls EXCEPT ![c] = Settled(calls[c], "error", <<>>)]
          /\ UNCHANGED <<sess, active, createdEv>>
  /\ UNCHANGED <<modeVars, wsVars, svcVars, now, due, cleanupTask, browsers, engines,
                 pg, sweeps, stopVars, closedEv, pageEv>>

----------------------------------------------------------------------------
\* BrowserPool.isReady / getHealthStatus and the HealthCheck handler

\* BrowserPool.isReady
HealthReady == Len(browsers) > 0 /\ Cardinality(active) < maxBrowsers

\* The status field of getHealthStatus.
HealthStatus == IF HealthReady THEN "healthy" ELSE "degraded"

\* The gRPC server answers HealthCheck calls.
HealthServed == ~exited /\ phase \in {"grpc", "running"} /\ shut = "no"

----------------------------------------------------------------------------
\* BrowserPool.getSession

\* A getSession that returns the session without touching it.
GetSessionPeeking(c, p, s) ==
  /\ IdleSlots # {} /\ c = Min(IdleSlots)
  /\ PlaneOpen(p)
  /\ sess[s].ctx # "none"
  /\ calls' = [calls EXCEPT ![c] =
       Settled([NewCall(p, "getSession") EXCEPT !.sid = s],
               IF s \in active THEN "ok" ELSE "notfound", <<>>)]
  /\ UNCHANGED <<modeVars, wsVars, svcVars, now, due, cleanupTask, browsers, engines,
                 active, sess, pg, sweeps, stopVars, evVars>>

GetSession(c, p, s) ==
  /\ IdleSlots # {} /\ c = Min(IdleSlots)
  /\ PlaneOpen(p)
  /\ sess[s].ctx # "none"
  /\ IF s \in active
     THEN /\ sess' = [sess EXCEPT ![s].last = now]
          /\ calls' = [calls EXCEPT ![c] =
               Settled([NewCall(p, "getSession") EXCEPT !.sid = s], "ok", <<>>)]
     ELSE /\ calls' = [calls EXCEPT ![c] =
               Settled([NewCall(p, "getSession") EXCEPT !.sid = s],
                       "notfound", <<>>)]
          /\ UNCHANGED sess
  /\ UNCHANGED <<modeVars, wsVars, svcVars, now, due, cleanupTask, browsers, engines,
                 active, pg, sweeps, stopVars, evVars>>

----------------------------------------------------------------------------
\* BrowserPool.closeSession, with the wrapper of setupEventBroadcasting

\* A closeSession that answers true also for an id that is not in the table.
CloseSessionBeginRepeating(c, p, s) ==
  /\ IdleSlots # {} /\ c = Min(IdleSlots)
  /\ PlaneOpen(p)
  /\ sess[s].ctx # "none"
  /\ LET r == [NewCall(p, "closeSession") EXCEPT !.sid = s] IN
     IF s \in active
     THEN /\ calls' = [calls EXCEPT ![c] = [r EXCEPT !.pc = SessionCloseStart(s)]]
          /\ sess' = [sess EXCEPT ![s] = SessionAfterCloseCall(s)]
     ELSE /\ calls' = [calls EXCEPT ![c] = Settled(r, "true", <<>>)]
          /\ UNCHANGED sess
  /\ UNCHANGED <<modeVars, wsVars, svcVars, now, due, cleanupTask, browsers, engines,
                 active, pg, sweeps, stopVars, evVars>>

CloseSessionBegin(c, p, s) ==
  /\ IdleSlots # {} /\ c = Min(IdleSlots)
  /\ PlaneOpen(p)
  /\ sess[s].ctx # "none"
  /\ LET r == [NewCall(p, "closeSession") EXCEPT !.sid = s] IN
     IF s \in active
     THEN /\ calls' = [calls EXCEPT ![c] = [r EXCEPT !.pc = SessionCloseStart(s)]]
          /\ sess' = [sess EXCEPT ![s] = SessionAfterCloseCall(s)]
     ELSE /\ calls' = [calls EXCEPT ![c] = Settled(r, "false", <<>>)]
          /\ UNCHANGED sess
  /\ UNCHANGED <<modeVars, wsVars, svcVars, now, due, cleanupTask, browsers, engines,
                 active, pg, sweeps, stopVars, evVars>>

\* The page closes of the session.close() awaited by closeSession settled.
CloseSessionPages(c, ok) ==
  /\ ~exited
  /\ calls[c].op = "closeSession" /\ calls[c].pc = "closePages"
  /\ LET s == calls[c].sid IN
     /\ pg' = PagesAfterClose(s, ok)
     /\ sess' = [sess EXCEPT ![s] = SessionAfterPages(s)]
  /\ calls' = [calls EXCEPT ![c].pc = "closeCtx"]
  /\ UNCHANGED <<modeVars, wsVars, svcVars, now, due, cleanupTask, browsers, engines,
                 active, sweeps, stopVars, evVars>>

\* context.close() settled: close() returns, the session is deleted from
\* the table, true is returned and the wrapper broadcasts session.closed.
CloseSessionDone(c, ok) ==
  /\ ~exited
  /\ calls[c].op = "closeSession" /\ calls[c].pc = "closeCtx"
  /\ LET s == calls[c].sid IN
     /\ sess' = [sess EXCEPT ![s] = SessionAfterCtx(s, ok)]
     /\ active' = active \ {s}
     /\ closedEv' = IF calls[c].wr
                    THEN [closedEv EXCEPT ![s] = Bump(@)] ELSE closedEv
  /\ calls' = [calls EXCEPT ![c] =
       Settled(calls[c], "true",
               IF calls[c].wr THEN <<"session.closed">> ELSE <<>>)]
  /\ UNCHANGED <<modeVars, wsVars, svcVars, now, due, cleanupTask, browsers, engines,
                 pg, sweeps, stopVars, createdEv, pageEv>>

\* The caller has its answer: the slot is free again.
Retire(c) ==
  /\ ~exited
  /\ calls[c].pc = "done"
  /\ calls' = [calls EXCEPT ![c] = NoCall]
  /\ UNCHANGED <<modeVars, wsVars, svcVars, now, due, cleanupTask, browsers, engines,
                 active, sess, pg, sweeps, stopVars, evVars>>

----------------------------------------------------------------------------
\* BrowserPool.createPage / getPage, BrowserSession.addPage, and the page
\* actions of the control planes (navigate, click, type)

\* The engine can still serve the context of session s.
CtxUsable(s) == sess[s].ctx = "open" /\ engines[sess[s].eng] = "up"

\* getSession inside createPage: NotFound, or refresh and context.newPage().
CreatePageBegin(c, p, s, url) ==
  /\ IdleSlots # {} /\ c = Min(IdleSlots)
  /\ PlaneOpen(p)
  /\ sess[s].ctx # "none"
  /\ LET r == [NewCall(p, "createPage") EXCEPT !.sid = s, !.url = url] IN
     IF s \in active
     THEN /\ sess' = [sess EXCEPT ![s].last = now]
          /\ calls' = [calls EXCEPT ![c] = [r EXCEPT !.pc = "newPage"]]
     ELSE /\ calls' = [calls EXCEPT ![c] = Settled(r, "notfound", <<>>)]
          /\ UNCHANGED sess
  /\ UNCHANGED <<modeVars, wsVars, svcVars, now, due, cleanupTask, browsers, engines,
                 active, pg, sweeps, stopVars, evVars>>

\* context.newPage() settled; on success addPage registers the page under a
\* fresh id and, with a url, page.goto is awaited.
CreatePageNew(c, ok) ==
  /\ ~exited
  /\ calls[c].op = "createPage" /\ calls[c].pc = "newPage"
  /\ ok => CtxUsable(calls[c].sid) /\ UnusedPids # {}
  /\ IF ok
     THEN LET s == calls[c].sid
              q == Min(UnusedPids)
          IN
          /\ pg' = [pg EXCEPT ![q] = [sid |-> s, st |-> "open"]]
          /\ sess' = [sess EXCEPT ![s].pages = @ \cup {q}, ![s].last = now]
          /\ IF calls[c].url
             THEN /\ calls' = [calls EXCEPT ![c].pc = "goto", ![c].pid = q]
                  /\ UNCHANGED pcreatedEv
             ELSE /\ calls' = [calls EXCEPT ![c] =
                       Settled([calls[c] EXCEPT !.pid = q], "ok",
                               IF calls[c].wr THEN <<"page.created">> ELSE <<>>)]
                  /\ pcreatedEv' = IF calls[c].wr
                                   THEN [pcreatedEv EXCEPT ![q] = Bump(@)]
                                   ELSE pcreatedEv
     ELSE /\ calls' = [calls EXCEPT ![c] = Settled(calls[c], "error", <<>>)]
          /\ UNCHANGED <<pg, sess, pcreatedEv>>
  /\ UNCHANGED <<modeVars, wsVars, svcVars, now, due, cleanupTask, browsers, engines,
                 active, sweeps, stopVars, createdEv, closedEv, pclosedEv>>

\* A createPage whose page.created is broadcast whatever page.goto answered.
CreatePageGotoAnnounced(c, ok) ==
  /\ ~exited
  /\ calls[c].op = "createPage" /\ calls[c].pc = "goto"
  /\ ok => CtxUsable(calls[c].sid) /\ pg[calls[c].pid].st = "open"
  /\ calls' = [calls EXCEPT ![c] =
       Settled(calls[c], IF ok THEN "ok" ELSE "error",
               IF calls[c].wr THEN <<"page.created">> ELSE <<>>)]
  /\ pcreatedEv' = IF calls[c].wr
                   THEN [pcreatedEv EXCEPT ![calls[c].pid] = Bump(@)]
                   ELSE pcreatedEv
  /\ UNCHANGED <<modeVars, wsVars, svcVars, now, due, cleanupTask, browsers, engines,
                 active, sess, pg, sweeps, stopVars, createdEv, closedEv,
                 pclosedEv>>

\* page.goto of createPage settled: the page id is returned and the wrapper
\* broadcasts page.created, or the error is logged and thrown again.
CreatePageGoto(c, ok) ==
  /\ ~exited
  /\ calls[c].op = "createPage" /\ calls[c].pc = "goto"
  /\ ok => CtxUsable(calls[c].sid) /\ pg[calls[c].pid].st = "open"
  /\ IF ok
     THEN /\ calls' = [calls EXCEPT ![c] =
               Settled(calls[c], "ok",
                       IF calls[c].wr THEN <<"page.created">> ELSE <<>>)]
          /\ pcreatedEv' = IF calls[c].wr
                           THEN [pcreatedEv EXCEPT ![calls[c].pid] = Bump(@)]
                           ELSE pcreatedEv
     ELSE /\ calls' = [calls EXCEPT ![c] = Settled(calls[c], "error", <<>>)]
          /\ UNCHANGED pcreatedEv
  /\ UNCHANGED <<modeVars, wsVars, svcVars, now, due, cleanupTask, browsers, engines,
                 active, sess, pg, sweeps, stopVars, createdEv, closedEv,
                 pclosedEv>>

PageVerbs == {"navigate", "click", "type"}

\* navigatePage / click / type of the gRPC server and the same cases of
\* handleBrowserAction: getPage (which refreshes the session), then the
\* engine operation on the page.
PageActBegin(c, p, verb, s, q) ==
  /\ IdleSlots # {} /\ c = Min(IdleSlots)
  /\ PlaneOpen(p) /\ p \in {"grpc", "ws"}
  /\ sess[s].ctx # "none" /\ pg[q].st # "none"
  /\ LET r == [NewCall(p, verb) EXCEPT !.sid = s, !.pid = q, !.wr = FALSE] IN
     /\ sess' = IF s \in active THEN [sess EXCEPT ![s].last = now] ELSE sess
     /\ calls' = [calls EXCEPT ![c] =
          IF s \in active /\ q \in sess[s].pages
          THEN [r EXCEPT !.pc = "act"]
          ELSE Settled(r, "notfound", <<>>)]
  /\ UNCHANGED <<modeVars, wsVars, svcVars, now, due, cleanupTask, browsers, engines,
                 active, pg, sweeps, stopVars, evVars>>

PageActDone(c, ok) ==
  /\ ~exited
  /\ calls[c].op \in PageVerbs /\ calls[c].pc = "act"
  /\ ok => CtxUsable(calls[c].sid) /\ pg[calls[c].pid].st = "open"
  /\ calls' = [calls EXCEPT ![c] =
       Settled(calls[c], IF ok THEN "ok" ELSE "error", <<>>)]
  /\ UNCHANGED <<modeVars, wsVars, svcVars, now, due, cleanupTask, browsers, engines,
                 active, sess, pg, sweeps, stopVars, evVars>>

----------------------------------------------------------------------------
\* BrowserPool.closePage and BrowserSession.removePage, with the wrapper of
\* setupEventBroadcasting

\* getSession (which refreshes the session) and session.getPage: false when
\* either is missing, otherwise page.close() is awaited.
ClosePageBegin(c, p, s, q) ==
  /\ IdleSlots # {} /\ c = Min(IdleSlots)
  /\ PlaneOpen(p) /\ p \in {"api", "grpc"}
  /\ sess[s].ctx # "none" /\ pg[q].st # "none"
  /\ LET r == [NewCall(p, "closePage") EXCEPT !.sid = s, !.pid = q] IN
     /\ sess' = IF s \in active THEN [sess EXCEPT ![s].last = now] ELSE sess
     /\ calls' = [calls EXCEPT ![c] =
          IF s \in active /\ q \in sess[s].pages
          THEN [r EXCEPT !.pc = "closePage"]
          ELSE Settled(r, "false", <<>>)]
  /\ UNCHANGED <<modeVars, wsVars, svcVars, now, due, cleanupTask, browsers, engines,
                 active, pg, sweeps, stopVars, evVars>>

\* page.close() settled.  On success removePage deletes the page from the
\* map, refreshing the session if the page was still there, true is returned
\* and the wrapper broadcasts page.closed; an error is logged, false returned.
ClosePageDone(c, ok) ==
  /\ ~exited
  /\ calls[c].op = "closePage" /\ calls[c].pc = "closePage"
  /\ LET s == calls[c].sid
         q == calls[c].pid
     IN
     IF ok
     THEN /\ pg' = [pg EXCEPT ![q].st = "closed"]
          /\ sess' = IF q \in sess[s].pages
                     THEN [sess EXCEPT ![s].pages = @ \ {q}, ![s].last = now]
                     ELSE sess
          /\ pclosedEv' = IF calls[c].wr
                          THEN [pclosedEv EXCEPT ![q] = Bump(@)] ELSE pclosedEv
          /\ calls' = [calls EXCEPT ![c] =
               Settled(calls[c], "true",
                       IF calls[c].wr THEN <<"page.closed">> ELSE <<>>)]
     ELSE /\ calls' = [calls EXCEPT ![c] = Settled(calls[c], "false", <<>>)]
          /\ UNCHANGED <<pg, sess, pclosedEv>>
  /\ UNCHANGED <<modeVars, wsVars, svcVars, now, due, cleanupTask, browsers, engines,
                 active, sweeps, stopVars, createdEv, closedEv, pcreatedEv>>

----------------------------------------------------------------------------
\* The clock and the reaper: BrowserPool._cleanupExpiredSessions

\* BrowserSession.isExpired
IsExpired(s) == now - sess[s].last > BrowserTimeout

\* The expired list, in the insertion order of the session table.
ExpiredSessions == SortedSeq({s \in active : IsExpired(s)})

\* Time passes; the cleanup interval fires every CleanupInterval ticks.
Tick ==
  /\ ~exited /\ PoolStarted
  /\ now < MaxTime
  /\ ~due
  /\ now' = now + 1
  /\ due' = (cleanupTask /\ (now + 1) % CleanupInterval = 0)
  /\ UNCHANGED <<modeVars, wsVars, svcVars, cleanupTask, browsers, engines, active,
                 sess, pg, calls, sweeps, stopVars, evVars>>

\* The interval callback runs and finds no expired session.
SweepNothing ==
  /\ ~exited /\ due
  /\ ExpiredSessions = <<>>
  /\ due' = FALSE
  /\ UNCHANGED <<modeVars, wsVars, svcVars, now, cleanupTask, browsers, engines,
                 active, sess, pg, calls, sweeps, stopVars, evVars>>

\* The interval callback runs: it collects the expired sessions and calls
\* closeSession on the first.
SweepStart(k) ==
  /\ ~exited /\ due
  /\ ExpiredSessions # <<>>
  /\ sweeps[k].pc = "idle" /\ \A j \in Sweeps : j < k => sweeps[j].pc # "idle"
  /\ (serial => Quiet)
  /\ LET s == ExpiredSessions[1] IN
     /\ sweeps' = [sweeps EXCEPT ![k] = [pc |-> SessionCloseStart(s),
                                         exp |-> ExpiredSessions, i |-> 1,
                                         wr |-> wired]]
     /\ sess' = [sess EXCEPT ![s] = SessionAfterCloseCall(s)]
  /\ due' = FALSE
  /\ UNCHANGED <<modeVars, wsVars, svcVars, now, cleanupTask, browsers, engines,
                 active, pg, calls, stopVars, evVars>>

SweepPages(k, ok) ==
  /\ ~exited
  /\ sweeps[k].pc = "closePages"
  /\ LET s == sweeps[k].exp[sweeps[k].i] IN
     /\ pg' = PagesAfterClose(s, ok)
     /\ sess' = [sess EXCEPT ![s] = SessionAfterPages(s)]
  /\ sweeps' = [sweeps EXCEPT ![k].pc = "closeCtx"]
  /\ UNCHANGED <<modeVars, wsVars, svcVars, now, due, cleanupTask, browsers, engines,
                 active, calls, stopVars, evVars>>

\* The entries after position i that are still in the table tbl.
SweepRest(k, tbl) ==
  {j \in DOMAIN sweeps[k].exp : j > sweeps[k].i /\ sweeps[k].exp[j] \in tbl}

\* closeSession of the current entry returns true (the wrapper broadcasts
\* session.closed); the loop goes on: entries no longer in the table make
\* closeSession return false, the next one still there has close() called.
SweepCtx(k, ok) ==
  /\ ~exited
  /\ sweeps[k].pc = "closeCtx"
  /\ LET s == sweeps[k].exp[sweeps[k].i]
         tbl == active \ {s}
         rest == SweepRest(k, tbl)
         closed == [sess EXCEPT ![s] = SessionAfterCtx(s, ok)]
     IN
     /\ active' = tbl
     /\ closedEv' = IF sweeps[k].wr
                    THEN [closedEv EXCEPT ![s] = Bump(@)] ELSE closedEv
     /\ IF rest = {}
        THEN /\ sweeps' = [sweeps EXCEPT ![k].pc = "done",
                                         ![k].i = Len(sweeps[k].exp) + 1]
             /\ sess' = closed
        ELSE LET j == Min(rest)
                 n == sweeps[k].exp[j]
             IN
             /\ sweeps' = [sweeps EXCEPT ![k].pc = SessionCloseStart(n),
                                         ![k].i = j, ![k].wr = wired]
             /\ sess' = [closed EXCEPT ![n] = SessionAfterCloseCall(n)]
  /\ UNCHANGED <<modeVars, wsVars, svcVars, now, due, cleanupTask, browsers, engines,
                 pg, calls, stopVars, createdEv, pageEv>>

SweepRetire(k) ==
  /\ ~exited
  /\ sweeps[k].pc = "done"
  /\ sweeps' = [sweeps EXCEPT ![k] = NoSweep]
  /\ UNCHANGED <<modeVars, wsVars, svcVars, now, due, cleanupTask, browsers, engines,
                 active, sess, pg, calls, stopVars, evVars>>

----------------------------------------------------------------------------
\* BrowserPoolService.shutdown / setupGracefulShutdown and BrowserPool.stop

\* A termination signal or a fatal-error event while no shutdown runs.
Signal ==
  /\ ~exited /\ phase = "running" /\ shut = "no"
  /\ ShutdownBegin
  /\ UNCHANGED <<modeVars, wsEnv, phase, wired, exited, now, browsers, engines,
                 active, pg, calls, sweeps, evVars>>

\* A further signal during shutdown: shutdown() returns at once and the
\* handler calls process.exit.
SignalAgain ==
  /\ ~exited /\ phase = "running" /\ shut = "inProgress"
  /\ exited' = TRUE
  /\ UNCHANGED <<modeVars, wsVars, phase, wired, shut, now, due, cleanupTask, browsers,
                 engines, active, sess, pg, calls, sweeps, stopVars, evVars>>

\* The page closes of the close() called by stop() for session s have
\* settled; close() goes on to context.close().
StopPages(s, ok) ==
  /\ ~exited /\ stopPc = "sessions"
  /\ s \in stopPages
  /\ pg' = PagesAfterClose(s, ok)
  /\ sess' = [sess EXCEPT ![s] = SessionAfterPages(s)]
  /\ stopPages' = stopPages \ {s}
  /\ stopCtx' = stopCtx \cup {s}
  /\ UNCHANGED <<modeVars, wsVars, svcVars, now, due, cleanupTask, browsers, engines,
                 active, calls, sweeps, stopPc, stopSnap, stopEng, evVars>>

\* A drain in which a failed context.close() rejects stop().
StopCtxAborting(s, ok) ==
  /\ ~exited /\ stopPc = "sessions"
  /\ s \in stopCtx
  /\ sess' = [sess EXCEPT ![s] = SessionAfterCtx(s, ok)]
  /\ stopCtx' = stopCtx \ {s}
  /\ stopPc' = IF ok THEN stopPc ELSE "failed"
  /\ UNCHANGED <<modeVars, wsVars, svcVars, now, due, cleanupTask, browsers, engines,
                 active, pg, calls, sweeps, stopSnap, stopPages, stopEng,
                 evVars>>

\* The context.close() called by stop() for session s has settled; an error
\* is logged by close() and the promise resolves all the same.
StopCtx(s, ok) ==
  /\ ~exited /\ stopPc = "sessions"
  /\ s \in stopCtx
  /\ sess' = [sess EXCEPT ![s] = SessionAfterCtx(s, ok)]
  /\ stopCtx' = stopCtx \ {s}
  /\ UNCHANGED <<modeVars, wsVars, svcVars, now, due, cleanupTask, browsers, engines,
                 active, pg, calls, sweeps, stopPc, stopSnap, stopPages,
                 stopEng, evVars>>

\* Promise.allSettled(sessionPromises) resolved: the table is cleared and
\* browser.close() is called on every listed engine.
StopSessionsSettled ==
  /\ ~exited /\ stopPc = "sessions"
  /\ stopPages = {} /\ stopCtx = {}
  /\ active' = {}
  /\ stopEng' = Range(browsers)
  /\ stopPc' = "engines"
  /\ UNCHANGED <<modeVars, wsVars, svcVars, now, due, cleanupTask, browsers, engines,
                 sess, pg, calls, sweeps, stopSnap, stopPages, stopCtx, evVars>>

\* One browser.close() settled; a closed engine emits 'disconnected'.
StopEngine(e, ok) ==
  /\ ~exited /\ stopPc = "engines"
  /\ e \in stopEng
  /\ stopEng' = stopEng \ {e}
  /\ IF ok /\ engines[e] = "up"
     THEN /\ engines' = [engines EXCEPT ![e] = "closed"]
          /\ browsers' = Remove(browsers, e)
     ELSE UNCHANGED <<engines, browsers>>
  /\ UNCHANGED <<modeVars, wsVars, svcVars, now, due, cleanupTask, active, sess, pg,
                 calls, sweeps, stopPc, stopSnap, stopPages, stopCtx, evVars>>

StopEnginesSettled ==
  /\ ~exited /\ stopPc = "engines"
  /\ stopEng = {}
  /\ browsers' = <<>>
  /\ stopPc' = "done"
  /\ UNCHANGED <<modeVars, wsVars, svcVars, now, due, cleanupTask, engines, active,
                 sess, pg, calls, sweeps, stopSnap, stopPages, stopCtx,
                 stopEng, evVars>>

\* Promise.allSettled(shutdownPromises) resolved (the gRPC server waits for
\* its pending calls): shutdown() returns and its caller exits the process.
ShutdownExit ==
  /\ ~exited /\ shut = "inProgress"
  /\ stopPc = "done"
  /\ \A c \in Calls : ~(InFlight(c) /\ calls[c].plane = "grpc")
  /\ shut' = "complete"
  /\ exited' = TRUE
  /\ UNCHANGED <<modeVars, wsVars, phase, wired, now, due, cleanupTask, browsers,
                 engines, active, sess, pg, calls, sweeps, stopVars, evVars>>

----------------------------------------------------------------------------
\* BrowserPoolWebSocketServer: connections, subscriptions, broadcast and the
\* heartbeat

\* The topics of broadcastSessionCreated .. broadcastPageClosed.
EventTopics == {"session.created", "session.closed", "page.created", "page.closed"}

\* The topic lists clients put in a subscribe or unsubscribe message: a
\* topic, the wildcard, and the patterns of the README client.
SubRequests == {{"session.created"}, {"*"}, {"session.*", "page.*"}}

\* sendMessage: the frame goes out if the client is registered and its
\* socket is OPEN (the record keeps the type of the latest frame sent).
Sent(k, frame) ==
  IF conns[k].reg /\ conns[k].st = "open"
  THEN [conns[k] EXCEPT !.frame = frame]
  ELSE conns[k]

WsUp == ~exited /\ phase = "running"

\* handleConnection
WsConnect(k) ==
  /\ WsUp /\ shut = "no"
  /\ k \in peers /\ conns[k].st = "none"
  /\ \A j \in peers : j < k => conns[j].st # "none"
  /\ conns' = [conns EXCEPT ![k] =
       [NoConn EXCEPT !.st = "open", !.reg = TRUE, !.lastPing = wsNow,
                      !.timer = TRUE, !.beat = wsNow + HeartbeatTicks,
                      !.frame = "connection"]]
  /\ UNCHANGED <<modeVars, wsEnv, svcVars, now, due, cleanupTask, browsers,
                 engines, active, sess, pg, calls, sweeps, stopVars, evVars>>

\* handlePing
WsPing(k) ==
  /\ WsUp /\ conns[k].reg
  /\ conns' = [conns EXCEPT ![k] = [Sent(k, "pong") EXCEPT !.lastPing = wsNow]]
  /\ UNCHANGED <<modeVars, wsEnv, svcVars, now, due, cleanupTask, browsers,
                 engines, active, sess, pg, calls, sweeps, stopVars, evVars>>

\* handleSubscribe
WsSubscribe(k, ts) ==
  /\ WsUp /\ conns[k].reg
  /\ conns' = [conns EXCEPT ![k] =
       [Sent(k, "subscribed") EXCEPT !.subs = @ \cup ts]]
  /\ UNCHANGED <<modeVars, wsEnv, svcVars, now, due, cleanupTask, browsers,
                 engines, active, sess, pg, calls, sweeps, stopVars, evVars>>

\* handleUnsubscribe
WsUnsubscribe(k, ts) ==
  /\ WsUp /\ conns[k].reg
  /\ conns' = [conns EXCEPT ![k] =
       [Sent(k, "unsubscribed") EXCEPT !.subs = @ \ ts]]
  /\ UNCHANGED <<modeVars, wsEnv, svcVars, now, due, cleanupTask, browsers,
                 engines, active, sess, pg, calls, sweeps, stopVars, evVars>>

\* Connection k delivers a browser-action message to handleMessage.
WsReads(k) ==
  /\ WsUp /\ conns[k].reg
  /\ "paced" \in planes => \A c \in Calls : calls[c].pc = "idle"

\* A browser-action message the handler answers in the same turn: an unknown
\* action, or a create-page for a session id that is not in the table; the
\* error is caught and a browser-action-result with success false is sent.
WsActionRejected(k) ==
  /\ WsReads(k)
  /\ conns' = [conns EXCEPT ![k] =
       [Sent(k, "browser-action-result") EXCEPT
          !.rq = 1 - @,
          !.rs = IF conns[k].st = "open" THEN 1 - @ ELSE @,
          !.succ = IF conns[k].st = "open" THEN "false" ELSE @]]
  /\ UNCHANGED <<modeVars, wsEnv, svcVars, now, due, cleanupTask, browsers,
                 engines, active, sess, pg, calls, sweeps, stopVars, evVars>>

\* A browser-action message without payload: the destructuring of the
\* payload throws, the catch block reads payload.action and throws again,
\* the promise of handleBrowserAction rejects with nobody awaiting it, and
\* the 'unhandledRejection' handler runs shutdown() and then exits.
WsActionNoPayload(k) ==
  /\ WsUp /\ conns[k].reg
  /\ IF shut = "no"
     THEN /\ conns' = WsStoppedFrom([conns EXCEPT ![k].rq = 1 - @])
          /\ ShutdownPool
          /\ UNCHANGED exited
     ELSE /\ conns' = [conns EXCEPT ![k].rq = 1 - @]
          /\ exited' = TRUE
          /\ UNCHANGED <<shut, due, cleanupTask, sess, stopVars>>
  /\ UNCHANGED <<modeVars, wsEnv, phase, wired, now, browsers, engines,
                 active, pg, calls, sweeps, evVars>>

\* A subscription test that reads 'session.*' and 'page.*' as patterns.
MatchesPattern(k, topic) ==
  \E x \in conns[k].subs :
    \/ x = topic \/ x = "*"
    \/ x = "session.*" /\ topic \in {"session.created", "session.closed"}
    \/ x = "page.*" /\ topic \in {"page.created", "page.closed"}

\* broadcast: the test of the subscription set of one client.
Matches(k, topic) == topic \in conns[k].subs \/ "*" \in conns[k].subs

\* broadcast(topic, payload)
WsBroadcast(topic) ==
  /\ WsUp /\ wired
  /\ conns' = [k \in Conns |->
       IF conns[k].reg /\ Matches(k, topic) /\ conns[k].st = "open"
       THEN [conns[k] EXCEPT !.rx = 1 - @, !.frame = "broadcast"]
       ELSE conns[k]]
  /\ lastBc' = [topic |-> topic, flip |-> 1 - lastBc.flip]
  /\ UNCHANGED <<modeVars, wsNow, svcVars, now, due, cleanupTask, browsers,
                 engines, active, sess, pg, calls, sweeps, stopVars, evVars>>

\* The sends of broadcast(topic, payload) over the connections cs.
BroadcastTo(cs, topic) ==
  [k \in Conns |->
     IF /\ cs[k].reg /\ cs[k].st = "open"
        /\ (topic \in cs[k].subs \/ "*" \in cs[k].subs)
     THEN [cs[k] EXCEPT !.rx = 1 - @, !.frame = "broadcast"]
     ELSE cs[k]]

\* The browser-action messages of connection k whose handler awaits the
\* pool or the engine.
Pending(k) == {c \in Calls : calls[c].conn = k /\ InFlight(c)}

\* sendMessage of a browser-action-result to connection k over cs.
Answered(cs, k, flag) ==
  IF cs[k].reg /\ cs[k].st = "open"
  THEN [cs EXCEPT ![k].frame = "browser-action-result", ![k].rs = 1 - @,
                  ![k].succ = flag]
  ELSE cs

\* The record of a browser-action message read from connection k; ord is
\* its position among the messages of k whose handler has not finished.
WsCall(k, op) ==
  [NewCall("ws", op) EXCEPT !.conn = k, !.ord = Cardinality(Pending(k)) + 1]

\* A handler that broadcasts browser.<action> whatever the action's outcome.
WsResultLoud(c, ok) ==
  LET k == calls[c].conn IN
  /\ conns' = BroadcastTo(Answered(conns, k, IF ok THEN "true" ELSE "false"),
                          ActionTopic(calls[c].op))
  /\ lastBc' = [topic |-> ActionTopic(calls[c].op), flip |-> 1 - lastBc.flip]
  /\ calls' = [d \in Calls |->
       IF d = c THEN NoCall
       ELSE IF calls[d].conn = k /\ calls[d].ord > calls[c].ord
            THEN [calls[d] EXCEPT !.ord = @ - 1]
            ELSE calls[d]]

\* The end of handleBrowserAction for the message in slot c: success=true
\* is sent and browser.<action> broadcast, or the catch block sends
\* success=false.
WsResult(c, ok) ==
  LET k == calls[c].conn IN
  /\ IF ok
     THEN /\ conns' = BroadcastTo(Answered(conns, k, "true"),
                                  ActionTopic(calls[c].op))
          /\ lastBc' = [topic |-> ActionTopic(calls[c].op),
                        flip |-> 1 - lastBc.flip]
     ELSE /\ conns' = Answered(conns, k, "false")
          /\ UNCHANGED lastBc
  /\ calls' = [d \in Calls |->
       IF d = c THEN NoCall
       ELSE IF calls[d].conn = k /\ calls[d].ord > calls[c].ord
            THEN [calls[d] EXCEPT !.ord = @ - 1]
            ELSE calls[d]]

\* handleBrowserAction, case 'create-session', read from connection k:
\* createSession up to its first await; the capacity error is caught and
\* answered with success=false at once.
WsCreateSession(k, c) ==
  /\ WsReads(k)
  /\ IdleSlots # {} /\ c = Min(IdleSlots)
  /\ IF AtCapacity
     THEN /\ conns' = Answered([conns EXCEPT ![k].rq = 1 - @], k, "false")
          /\ UNCHANGED calls
     ELSE /\ conns' = [conns EXCEPT ![k].rq = 1 - @]
          /\ calls' = [calls EXCEPT ![c] =
               IF Len(browsers) = 0
               THEN [WsCall(k, "createSession") EXCEPT !.pc = "launch"]
               ELSE [WsCall(k, "createSession") EXCEPT
                       !.pc = "newContext", !.eng = browsers[1]]]
  /\ UNCHANGED <<modeVars, wsEnv, svcVars, now, due, cleanupTask, browsers,
                 engines, active, sess, pg, sweeps, stopVars, evVars>>

\* browser.newContext() of a 'create-session' action settled: the session is
\* registered, the wrapper broadcasts session.created, then the handler
\* sends its result and broadcasts browser.create-session.
WsCreateSessionDone(c, ok) ==
  /\ ~exited
  /\ calls[c].conn # 0
  /\ calls[c].op = "createSession" /\ calls[c].pc = "newContext"
  /\ ok => engines[calls[c].eng] = "up" /\ UnusedSids # {}
  /\ IF ok
     THEN LET s == Min(UnusedSids) IN
          /\ sess' = [sess EXCEPT ![s] = [eng |-> calls[c].eng, last |-> now,
                                          pages |-> {}, ctx |-> "open",
                                          closeReq |-> FALSE]]
          /\ active' = active \cup {s}
          /\ createdEv' = IF calls[c].wr
                          THEN [createdEv EXCEPT ![s] = Bump(@)] ELSE createdEv
     ELSE UNCHANGED <<sess, active, createdEv>>
  /\ WsResult(c, ok)
  /\ UNCHANGED <<modeVars, wsNow, svcVars, now, due, cleanupTask, browsers,
                 engines, pg, sweeps, stopVars, closedEv, pageEv>>

\* handleBrowserAction, case 'create-page' on session s, read from
\* connection k: createPage up to its await; 'Session not found' is caught
\* and answered with success=false at once.
WsCreatePage(k, c, s) ==
  /\ WsReads(k)
  /\ IdleSlots # {} /\ c = Min(IdleSlots)
  /\ IF s \in active
     THEN /\ sess' = [sess EXCEPT ![s].last = now]
          /\ conns' = [conns EXCEPT ![k].rq = 1 - @]
          /\ calls' = [calls EXCEPT ![c] =
               [WsCall(k, "createPage") EXCEPT !.sid = s, !.pc = "newPage"]]
     ELSE /\ conns' = Answered([conns EXCEPT ![k].rq = 1 - @], k, "false")
          /\ UNCHANGED <<sess, calls>>
  /\ UNCHANGED <<modeVars, wsEnv, svcVars, now, due, cleanupTask, browsers,
                 engines, active, pg, sweeps, stopVars, evVars>>

\* context.newPage() of a 'create-page' action settled: addPage registers
\* the page, the wrapper broadcasts page.created, then the handler sends
\* its result and broadcasts browser.create-page.
WsCreatePageDone(c, ok) ==
  /\ ~exited
  /\ calls[c].conn # 0
  /\ calls[c].op = "createPage" /\ calls[c].pc = "newPage"
  /\ ok => CtxUsable(calls[c].sid) /\ UnusedPids # {}
  /\ IF ok
     THEN LET s == calls[c].sid
              q == Min(UnusedPids)
          IN
          /\ pg' = [pg EXCEPT ![q] = [sid |-> s, st |-> "open"]]
          /\ sess' = [sess EXCEPT ![s].pages = @ \cup {q}, ![s].last = now]
          /\ pcreatedEv' = IF calls[c].wr
                           THEN [pcreatedEv EXCEPT ![q] = Bump(@)]
                           ELSE pcreatedEv
     ELSE UNCHANGED <<pg, sess, pcreatedEv>>
  /\ WsResult(c, ok)
  /\ UNCHANGED <<modeVars, wsNow, svcVars, now, due, cleanupTask, browsers,
                 engines, active, sweeps, stopVars, createdEv, closedEv,
                 pclosedEv>>

\* handleBrowserAction for navigate, click and type on (s, q), read from
\* connection k: getPage (which refreshes the session); without the page the
\* handler throws and answers success=false at once, with it the engine
\* operation is awaited.
WsActBegin(k, c, verb, s, q) ==
  /\ WsReads(k)
  /\ IdleSlots # {} /\ c = Min(IdleSlots)
  /\ sess' = IF s \in active THEN [sess EXCEPT ![s].last = now] ELSE sess
  /\ IF s \in active /\ q \in sess[s].pages
     THEN /\ calls' = [calls EXCEPT ![c] =
               [WsCall(k, verb) EXCEPT
                  !.sid = s, !.pid = q, !.wr = FALSE, !.pc = "act"]]
          /\ conns' = [conns EXCEPT ![k].rq = 1 - @]
     ELSE /\ conns' = Answered([conns EXCEPT ![k].rq = 1 - @], k, "false")
          /\ UNCHANGED calls
  /\ UNCHANGED <<modeVars, wsEnv, svcVars, now, due, cleanupTask, browsers,
                 engines, active, pg, sweeps, stopVars, evVars>>

\* The engine operation of a navigate, click or type action settled.
WsActDone(c, ok) ==
  /\ ~exited
  /\ calls[c].conn # 0 /\ calls[c].pc = "act"
  /\ ok => CtxUsable(calls[c].sid) /\ pg[calls[c].pid].st = "open"
  /\ WsResult(c, ok)
  /\ UNCHANGED <<modeVars, wsNow, svcVars, now, due, cleanupTask, browsers,
                 engines, active, sess, pg, sweeps, stopVars, evVars>>

\* The client closes its socket: the 'close' event runs handleDisconnection.
WsClientClose(k) ==
  /\ WsUp /\ conns[k].st = "open"
  /\ conns' = [conns EXCEPT ![k].st = "gone", ![k].by = "client",
                            ![k].reg = FALSE]
  /\ UNCHANGED <<modeVars, wsEnv, svcVars, now, due, cleanupTask, browsers,
                 engines, active, sess, pg, calls, sweeps, stopVars, evVars>>

\* The close the server started has completed: handleDisconnection.
WsCloseEvent(k) ==
  /\ WsUp /\ conns[k].st = "closing"
  /\ conns' = [conns EXCEPT ![k].st = "gone", ![k].reg = FALSE]
  /\ UNCHANGED <<modeVars, wsEnv, svcVars, now, due, cleanupTask, browsers,
                 engines, active, sess, pg, calls, sweeps, stopVars, evVars>>

\* Time passes once the heartbeat timers that are due have run.
WsTick ==
  /\ WsUp
  /\ wsNow < MaxWsTime
  /\ \A k \in Conns : ~(conns[k].timer /\ conns[k].beat = wsNow)
  /\ wsNow' = wsNow + 1
  /\ UNCHANGED <<modeVars, conns, lastBc, svcVars, now, due, cleanupTask, browsers,
                 engines, active, sess, pg, calls, sweeps, stopVars, evVars>>

\* A silence test that is met already at the timeout.
SilentAtTimeout(k) == wsNow - conns[k].lastPing >= PingTimeoutTicks

\* The silence test of the heartbeat callback.
Silent(k) == wsNow - conns[k].lastPing > PingTimeoutTicks

\* The interval callback of setupHeartbeat for connection k.
WsHeartbeat(k) ==
  /\ WsUp
  /\ conns[k].timer /\ conns[k].beat = wsNow
  /\ conns' = [conns EXCEPT ![k] =
       IF ~conns[k].reg
       THEN [conns[k] EXCEPT !.timer = FALSE]
       ELSE IF Silent(k)
            THEN [conns[k] EXCEPT !.timer = FALSE,
                                  !.st = IF @ = "open" THEN "closing" ELSE @,
                                  !.by = IF conns[k].st = "open"
                                         THEN "heartbeat" ELSE @]
            ELSE [Sent(k, "heartbeat") EXCEPT !.beat = wsNow + HeartbeatTicks]]
  /\ UNCHANGED <<modeVars, wsEnv, svcVars, now, due, cleanupTask, browsers,
                 engines, active, sess, pg, calls, sweeps, stopVars, evVars>>

----------------------------------------------------------------------------
\* The pool under concurrent callers of its methods

InitFleet(pl, ser, kp, caps, prs, fl) ==
  /\ planes = pl
  /\ peers = prs
  /\ fleet = fl
  /\ conns = [k \in Conns |-> NoConn]
  /\ wsNow = 0
  /\ lastBc = [topic |-> "none", flip |-> 0]
  /\ serial = ser
  /\ keep = kp
  /\ maxBrowsers \in caps
  /\ phase = "starting"
  /\ wired = FALSE
  /\ shut = "no"
  /\ exited = FALSE
  /\ now = 0
  /\ due = FALSE
  /\ cleanupTask = FALSE
  /\ browsers = <<>>
  /\ engines = [e \in Eids |-> "none"]
  /\ active = {}
  /\ sess = [s \in Sids |-> NoSession]
  /\ pg = [p \in Pids |-> NoPage]
  /\ calls = [c \in Calls |-> NoCall]
  /\ sweeps = [k \in Sweeps |-> NoSweep]
  /\ stopPc = "idle"
  /\ stopSnap = {}
  /\ stopPages = {}
  /\ stopCtx = {}
  /\ stopEng = {}
  /\ createdEv = [s \in Sids |-> 0]
  /\ closedEv = [s \in Sids |-> 0]
  /\ pcreatedEv = [q \in Pids |-> 0]
  /\ pclosedEv = [q \in Pids |-> 0]

\* All engine ids but the last can be launched: the last is kept for the
\* specifications in which concurrent calls launch engines.
InitPeers(pl, ser, kp, caps, prs) ==
  InitFleet(pl, ser, kp, caps, prs, Eids \ {MaxEngines})

InitWith(pl, ser, kp, caps) == InitPeers(pl, ser, kp, caps, {})

\* Startup without failures, then the service runs.
StartUp ==
  \/ StartLaunch(TRUE)
  \/ StartGrpc(TRUE)
  \/ StartWs(TRUE)

SessionCalls ==
  \/ \E c \in Calls, p \in planes : CreateSessionBegin(c, p)
  \/ \E c \in Calls, ok \in BOOLEAN : CreateSessionLaunched(c, ok)
  \/ \E c \in Calls, ok \in BOOLEAN : CreateSessionContext(c, ok)
  \/ \E c \in Calls, p \in planes, s \in Sids : CloseSessionBegin(c, p, s)
  \/ \E c \in Calls, ok \in BOOLEAN : CloseSessionDone(c, ok)

Drain ==
  \/ Signal
  \/ \E s \in Sids, ok \in BOOLEAN : StopCtx(s, ok)
  \/ StopSessionsSettled
  \/ \E e \in Eids, ok \in BOOLEAN : StopEngine(e, ok)
  \/ StopEnginesSettled
  \/ ShutdownExit

Reaper ==
  \/ Tick
  \/ SweepNothing
  \/ \E k \in Sweeps : SweepStart(k)
  \/ \E k \in Sweeps, ok \in BOOLEAN : SweepCtx(k, ok)
  \/ \E k \in Sweeps : SweepRetire(k)

\* Spec: concurrent callers of the pool's session methods, engine
\* disconnections and the shutdown drain.
Init == InitWith({"api"}, FALSE, FALSE, {1})

Next ==
  \/ StartUp
  \/ \E e \in Eids : Disconnect(e)
  \/ SessionCalls
  \/ Drain

Spec == Init /\ [][Next]_vars

\* SpecReap: the same with the clock and the reaper.
NextReap ==
  \/ StartUp
  \/ \E c \in Calls, p \in planes : CreateSessionBegin(c, p)
  \/ \E c \in Calls, ok \in BOOLEAN : CreateSessionContext(c, ok)
  \/ \E c \in Calls, p \in planes, s \in Sids : CloseSessionBegin(c, p, s)
  \/ \E c \in Calls, ok \in BOOLEAN : CloseSessionDone(c, ok)
  \/ \E c \in Calls, p \in planes, s \in Sids : GetSession(c, p, s)
  \/ Reaper
  \/ Drain

InitReap == InitWith({"api"}, FALSE, FALSE, {2})

SpecReap == InitReap /\ [][NextReap]_vars

\* SpecLate: Spec with callers that go on calling during the drain.
InitLate == InitWith({"api", "late"}, FALSE, FALSE, {1})

SpecLate == InitLate /\ [][Next]_vars

\* SpecSeq: one caller that issues one session operation at a time and
\* sees each answer; engines may fail or disconnect at any time.
InitSeq == InitWith({"api"}, TRUE, TRUE, 1..(MaxSessions - 1))

NextSeq ==
  \/ StartUp
  \/ \E e \in Eids : Disconnect(e)
  \/ SessionCalls
  \/ \E c \in Calls : Retire(c)

SpecSeq == InitSeq /\ [][NextSeq]_vars

\* SpecDrain: sessions with pages, concurrent callers, engine
\* disconnections, and the shutdown drain with failing closes.
PageCalls ==
  \/ \E c \in Calls, p \in planes, s \in Sids : CreatePageBegin(c, p, s, FALSE)
  \/ \E c \in Calls, ok \in BOOLEAN : CreatePageNew(c, ok)
  \/ \E c \in Calls, ok \in BOOLEAN : CloseSessionPages(c, ok)

NextDrain ==
  \/ StartUp
  \/ \E e \in Eids : Disconnect(e)
  \/ SessionCalls
  \/ PageCalls
  \/ Drain
  \/ \E s \in Sids, ok \in BOOLEAN : StopPages(s, ok)

InitDrain == InitWith({"api"}, TRUE, FALSE, {2})

SpecDrain == InitDrain /\ [][NextDrain]_vars

\* SpecPlanes: one client at a time issuing the action verbs through the
\* gRPC server or over a WebSocket connection, each answer kept.
InitPlanes == InitWith({"grpc", "ws"}, TRUE, TRUE, {1})

NextPlanes ==
  \/ StartUp
  \/ \E c \in Calls, p \in planes : CreateSessionBegin(c, p)
  \/ \E c \in Calls, ok \in BOOLEAN : CreateSessionContext(c, ok)
  \/ \E c \in Calls, p \in planes, s \in Sids, url \in BOOLEAN :
       CreatePageBegin(c, p, s, url)
  \/ \E c \in Calls, ok \in BOOLEAN : CreatePageNew(c, ok)
  \/ \E c \in Calls, ok \in BOOLEAN : CreatePageGoto(c, ok)
  \/ \E c \in Calls, p \in planes, verb \in PageVerbs, s \in Sids, q \in Pids :
       PageActBegin(c, p, verb, s, q)
  \/ \E c \in Calls, ok \in BOOLEAN : PageActDone(c, ok)
  \/ \E c \in Calls : Retire(c)

SpecPlanes == InitPlanes /\ [][NextPlanes]_vars

\* SpecBeat: clients that connect, ping when they like and may go away,
\* under the heartbeat of the server.
InitBeat == InitPeers({"ws"}, FALSE, FALSE, {1}, Conns)

NextBeat ==
  \/ StartUp
  \/ \E k \in Conns : WsConnect(k)
  \/ \E k \in Conns : WsPing(k)
  \/ \E k \in Conns : WsClientClose(k)
  \/ \E k \in Conns : WsCloseEvent(k)
  \/ \E k \in Conns : WsHeartbeat(k)
  \/ WsTick

SpecBeat == InitBeat /\ [][NextBeat]_vars

\* SpecSub: clients that subscribe and unsubscribe while events are
\* broadcast, until the service shuts down.
InitSub == InitPeers({"ws"}, FALSE, FALSE, {1}, Conns)

NextSub ==
  \/ StartUp
  \/ \E k \in Conns : WsConnect(k)
  \/ \E k \in Conns, ts \in SubRequests : WsSubscribe(k, ts)
  \/ \E k \in Conns, ts \in SubRequests : WsUnsubscribe(k, ts)
  \/ \E topic \in EventTopics : WsBroadcast(topic)
  \/ \E k \in Conns : WsClientClose(k)
  \/ \E k \in Conns : WsCloseEvent(k)
  \/ Signal

SpecSub == InitSub /\ [][NextSub]_vars

\* SpecSync: one client of the gRPC server issuing Acquire, Release,
\* CreatePage and ClosePage one at a time, each answer kept; the engine
\* operations may fail.
InitSync == InitWith({"grpc"}, TRUE, TRUE, {1})

NextSync ==
  \/ StartUp
  \/ \E c \in Calls, p \in planes : CreateSessionBegin(c, p)
  \/ \E c \in Calls, ok \in BOOLEAN : CreateSessionContext(c, ok)
  \/ \E c \in Calls, p \in planes, s \in Sids : CloseSessionBegin(c, p, s)
  \/ \E c \in Calls, ok \in BOOLEAN : CloseSessionPages(c, ok)
  \/ \E c \in Calls, ok \in BOOLEAN : CloseSessionDone(c, ok)
  \/ \E c \in Calls, p \in planes, s \in Sids, url \in BOOLEAN :
       CreatePageBegin(c, p, s, url)
  \/ \E c \in Calls, ok \in BOOLEAN : CreatePageNew(c, ok)
  \/ \E c \in Calls, ok \in BOOLEAN : CreatePageGoto(c, ok)
  \/ \E c \in Calls, p \in planes, s \in Sids, q \in Pids :
       ClosePageBegin(c, p, s, q)
  \/ \E c \in Calls, ok \in BOOLEAN : ClosePageDone(c, ok)
  \/ \E c \in Calls : Retire(c)

SpecSync == InitSync /\ [][NextSync]_vars

\* SpecRelease: one client of the gRPC server that acquires sessions and
\* releases them, also more than once, each answer kept.
InitRelease == InitWith({"grpc"}, TRUE, TRUE, {1})

NextRelease ==
  \/ StartUp
  \/ \E c \in Calls, p \in planes : CreateSessionBegin(c, p)
  \/ \E c \in Calls, ok \in BOOLEAN : CreateSessionContext(c, ok)
  \/ \E c \in Calls, p \in planes, s \in Sids : CloseSessionBegin(c, p, s)
  \/ \E c \in Calls, ok \in BOOLEAN : CloseSessionDone(c, ok)
  \/ \E c \in Calls : Retire(c)

SpecRelease == InitRelease /\ [][NextRelease]_vars

\* SpecActivity: one client of the gRPC server working on sessions and
\* their pages, one call at a time, while the clock advances and the reaper
\* sweeps.
InitActivity == InitWith({"grpc", "paced"}, TRUE, TRUE, {1})

NextActivity ==
  \/ StartUp
  \/ \E c \in Calls, p \in planes : CreateSessionBegin(c, p)
  \/ \E c \in Calls, ok \in BOOLEAN : CreateSessionContext(c, ok)
  \/ \E c \in Calls, p \in planes, s \in Sids : GetSession(c, p, s)
  \/ \E c \in Calls, p \in planes, s \in Sids : CreatePageBegin(c, p, s, FALSE)
  \/ \E c \in Calls, ok \in BOOLEAN : CreatePageNew(c, ok)
  \/ \E c \in Calls, p \in planes, s \in Sids, q \in Pids :
       PageActBegin(c, p, "click", s, q)
  \/ \E c \in Calls, ok \in BOOLEAN : PageActDone(c, ok)
  \/ \E c \in Calls, p \in planes, s \in Sids, q \in Pids :
       ClosePageBegin(c, p, s, q)
  \/ \E c \in Calls, ok \in BOOLEAN : ClosePageDone(c, ok)
  \/ \E c \in Calls : Retire(c)
  \/ Reaper
  \/ \E k \in Sweeps, ok \in BOOLEAN : SweepPages(k, ok)

SpecActivity == InitActivity /\ [][NextActivity]_vars

\* SpecStart: the start of the service with launches and servers that may
\* fail and engines that may disconnect, then the drain and the exit.
InitStart == InitFleet({"api"}, FALSE, FALSE, 1..MaxEngines, {}, Eids)

NextStart ==
  \/ \E ok \in BOOLEAN : StartLaunch(ok)
  \/ \E ok \in BOOLEAN : StartGrpc(ok)
  \/ \E ok \in BOOLEAN : StartWs(ok)
  \/ \E e \in Eids : Disconnect(e)
  \/ Signal
  \/ StopSessionsSettled
  \/ \E e \in Eids, ok \in BOOLEAN : StopEngine(e, ok)
  \/ StopEnginesSettled
  \/ ShutdownExit

SpecStart == InitStart /\ [][NextStart]_vars

\* SpecAct: clients that send browser-action messages the server answers
\* in the same turn, well formed or not, until the service shuts down.
InitAct == InitPeers({"ws"}, FALSE, FALSE, {1}, Conns)

NextAct ==
  \/ StartUp
  \/ \E k \in Conns : WsConnect(k)
  \/ \E k \in Conns : WsActionRejected(k)
  \/ \E k \in Conns : WsActionNoPayload(k)
  \/ \E k \in Conns : WsClientClose(k)
  \/ \E k \in Conns : WsCloseEvent(k)
  \/ \E e \in Eids : Disconnect(e)
  \/ Signal
  \/ StopSessionsSettled
  \/ \E e \in Eids, ok \in BOOLEAN : StopEngine(e, ok)
  \/ StopEnginesSettled
  \/ ShutdownExit

SpecAct == InitAct /\ [][NextAct]_vars

\* SpecPages: concurrent callers of the pool's methods opening and closing
\* pages in a session.
InitPages == InitWith({"api"}, FALSE, FALSE, {1})

NextPages ==
  \/ StartUp
  \/ \E c \in Calls, p \in planes : CreateSessionBegin(c, p)
  \/ \E c \in Calls, ok \in BOOLEAN : CreateSessionContext(c, ok)
  \/ \E c \in Calls, p \in planes, s \in Sids : CreatePageBegin(c, p, s, FALSE)
  \/ \E c \in Calls, ok \in BOOLEAN : CreatePageNew(c, ok)
  \/ \E c \in Calls, p \in planes, s \in Sids, q \in Pids :
       ClosePageBegin(c, p, s, q)
  \/ \E c \in Calls, ok \in BOOLEAN : ClosePageDone(c, ok)

SpecPages == InitPages /\ [][NextPages]_vars

----------------------------------------------------------------------------
\* C1. Claim: under every interleaving, also with several createSession
\* calls suspended between the capacity check and the registration, the
\* session table never holds more than maxBrowsers sessions.
C1_CapacityNeverExceeded == Cardinality(active) <= maxBrowsers

\* C2. Claim (as made): a createSession is rejected with the capacity error,
\* leaving the table unchanged, exactly when the table holds maxBrowsers
\* sessions; every other createSession registers one session under a
\* fresh id; a closeSession that returned true on a full table makes room.
C2_AdmissionExact ==
  [][\A c \in Calls :
       /\ (calls[c].pc = "idle" /\ calls'[c].op = "createSession") =>
            /\ calls'[c].res = "capacity" <=> Cardinality(active) = maxBrowsers
            /\ calls'[c].res = "capacity" => active' = active
       /\ (calls[c].op = "createSession" /\ InFlight(c) /\ calls'[c].pc = "done") =>
            /\ calls'[c].res = "ok"
            /\ calls'[c].sid \in UnusedSids
            /\ active' = active \cup {calls'[c].sid}
       /\ (calls[c].op = "closeSession" /\ InFlight(c) /\ calls'[c].res = "true"
             /\ Cardinality(active) = maxBrowsers) =>
            Cardinality(active') < maxBrowsers]_vars

\* C2, amended: the rejection happens exactly when the table holds at least
\* maxBrowsers sessions; a createSession that passed the check registers
\* one session under a fresh id if the engine launch and newContext
\* succeed, and fails leaving the table unchanged if one of them fails.
C2_Admission ==
  [][\A c \in Calls :
       /\ (calls[c].pc = "idle" /\ calls'[c].op = "createSession") =>
            /\ calls'[c].res = "capacity" <=> Cardinality(active) >= maxBrowsers
            /\ calls'[c].res = "capacity" => active' = active
       /\ (calls[c].op = "createSession" /\ InFlight(c) /\ calls'[c].pc = "done") =>
            /\ calls'[c].res \in {"ok", "error"}
            /\ calls'[c].res = "ok" =>
                 /\ calls'[c].sid \in UnusedSids
                 /\ active' = active \cup {calls'[c].sid}
            /\ calls'[c].res = "error" => active' = active
       /\ (calls[c].op = "closeSession" /\ InFlight(c) /\ calls'[c].res = "true"
             /\ Cardinality(active) = maxBrowsers) =>
            Cardinality(active') < maxBrowsers]_vars

\* The scenario of the claim: with the table full a createSession was
\* rejected; after a session was closed another one was registered.
C2_Witness ==
  \E c, d \in Calls :
    /\ calls[c].op = "createSession" /\ calls[c].res = "capacity"
    /\ calls[d].op = "createSession" /\ calls[d].res = "ok"
    /\ calls[d].sid \in active
    /\ Cardinality(active) = maxBrowsers
    /\ \E s \in Sids : s \notin active /\ closedEv[s] = 1

\* C3. Claim: a sweep that found a session expired removes it and a
\* session.closed event for it is published: once the sweep has gone past
\* an entry of its expired list, that session is out of the table and its
\* event has been broadcast.
C3_ReapedAndPublished ==
  \A k \in Sweeps : \A j \in DOMAIN sweeps[k].exp :
    j < sweeps[k].i =>
      /\ sweeps[k].exp[j] \notin active
      /\ closedEv[sweeps[k].exp[j]] >= 1

\* C4. Claim: never more than one session.closed event is published for a
\* session, whatever the interleaving of release calls and reaper sweeps.
C4_AtMostOneClosedEvent == \A s \in Sids : closedEv[s] <= 1

\* C5. Claim: the sessions of a disconnected engine are closed as a
\* consequence of the disconnection.  The disconnection is handled in one
\* step, so when nothing of the program is in flight nothing is left that
\* would close them: no session of the table is then on a disconnected
\* engine.
C5_ClosedAfterDisconnect ==
  (Quiet /\ shut = "no") =>
    \A s \in active : engines[sess[s].eng] # "disconnected"

\* C6. Claim: after a disconnection a replacement engine is launched
\* without any caller request: when the running service has nothing in
\* flight, the engine list is at its target size.
C6_EngineReplaced ==
  (Quiet /\ phase = "running" /\ shut = "no") => Len(browsers) >= maxBrowsers

\* C7. Claim: once the drain has been initiated a createSession call fails
\* at once with a draining-state error.
C7_DrainRejectsCreate ==
  [][\A c \in Calls :
       (shut # "no" /\ calls[c].pc = "idle" /\ calls'[c].op = "createSession")
         => calls'[c].res = "draining"]_vars

\* C8. Claim: a failing page close or context close does not stop the drain.
\* stop() calls close() on every session that is in the table when the
\* drain starts; once all these closes have settled, with or without an
\* error, it clears the table and only then calls close() on every listed
\* engine; once those have settled it empties the engine list.
C8_DrainStep ==
  /\ (stopPc = "idle" /\ stopPc' = "sessions") =>
       /\ stopSnap' = active
       /\ stopPages' \cup stopCtx' = active
  /\ (stopPc = "sessions" /\ stopPc' # "sessions") =>
       /\ stopPc' = "engines"
       /\ active' = {}
       /\ stopEng' = Range(browsers)
  /\ (stopPc = "engines" /\ stopPc' # "engines") =>
       /\ stopPc' = "done"
       /\ browsers' = <<>>

C8_DrainState ==
  /\ (stopPc \notin {"idle", "engines", "done"} /\ stopPages = {} /\ stopCtx = {})
       => ENABLED StopSessionsSettled
  /\ (stopPc \notin {"idle", "sessions", "done"} /\ stopEng = {})
       => ENABLED StopEnginesSettled
  /\ stopPc \in {"engines", "done"} =>
       /\ stopPages = {} /\ stopCtx = {}
       /\ \A s \in stopSnap : sess[s].closeReq
  /\ stopPc # "engines" => stopEng = {}

C8_DrainSurvivesCloseFailure == []C8_DrainState /\ [][C8_DrainStep]_vars

\* A drain that ran to its end although a page close and the context close
\* of a session it was closing failed.
C8_Witness ==
  /\ stopPc = "done" /\ active = {} /\ browsers = <<>>
  /\ \E s \in stopSnap : \E q \in Pids :
       /\ sess[s].ctx = "open" /\ sess[s].closeReq
       /\ pg[q].sid = s /\ pg[q].st = "open" /\ q \notin sess[s].pages

\* C9. Claim: the same action with the same outcome, issued once through
\* the synchronous plane and once through the event plane (both after the
\* broadcasts were wired), is followed by the same sequence of broadcasts.
Broadcasts(out) == SelectSeq(out, LAMBDA x : x # "reply")

ActionOps == {"createSession", "createPage"} \cup PageVerbs

C9_PlanesEquivalent ==
  \A c, d \in Calls :
    ( /\ calls[c].pc = "done" /\ calls[d].pc = "done"
      /\ calls[c].plane = "grpc" /\ calls[d].plane = "ws"
      /\ calls[c].op \in ActionOps /\ calls[c].op = calls[d].op
      /\ calls[c].res = calls[d].res
      /\ calls[c].wr = calls[d].wr )
    => Broadcasts(calls[c].out) = Broadcasts(calls[d].out)

\* C10. Claim: whenever a session leaves the session table (release,
\* reaper or shutdown drain) a session.closed event for it is published.
C10_RemovalPublishes ==
  [][\A s \in Sids :
       (s \in active /\ s \notin active') => closedEv'[s] > closedEv[s]]_vars

\* C11. Claim: for Acquire, Release, CreatePage and ClosePage on the
\* synchronous plane the lifecycle event (session.created, session.closed,
\* page.created, page.closed) is published after the change of the pool
\* state is committed and before the response is sent to the caller.
LifecycleTopic(op) ==
  CASE op = "createSession" -> "session.created"
    [] op = "closeSession" -> "session.closed"
    [] op = "createPage" -> "page.created"
    [] OTHER -> "page.closed"

Succeeded(r) ==
  \/ r.op \in {"createSession", "createPage"} /\ r.res = "ok"
  \/ r.op \in {"closeSession", "closePage"} /\ r.res = "true"

Committed(r, tbl, ss) ==
  CASE r.op = "createSession" -> r.sid \in tbl
    [] r.op = "closeSession" -> r.sid \notin tbl
    [] r.op = "createPage" -> r.pid \in ss[r.sid].pages
    [] OTHER -> r.pid \notin ss[r.sid].pages

Published(r, cr, cl, pcr, pcl) ==
  CASE r.op = "createSession" -> cr[r.sid]
    [] r.op = "closeSession" -> cl[r.sid]
    [] r.op = "createPage" -> pcr[r.pid]
    [] OTHER -> pcl[r.pid]

C11_EventBetweenCommitAndReply ==
  [][\A c \in Calls :
       ( /\ InFlight(c) /\ calls'[c].pc = "done"
         /\ calls'[c].plane = "grpc" /\ Succeeded(calls'[c]) ) =>
           /\ Committed(calls'[c], active', sess')
           /\ Published(calls'[c], createdEv', closedEv', pcreatedEv', pclosedEv')
                = Published(calls'[c], createdEv, closedEv, pcreatedEv, pclosedEv) + 1
           /\ calls'[c].out = <<LifecycleTopic(calls'[c].op), "reply">>]_vars

\* C12. Claim: closeSession is idempotent: for an id that is not in the
\* session table it returns false, publishes no event and leaves the session
\* table, the page tables and the engine list unchanged; of two closeSession
\* calls on the same id, one after the other, the first returns true and the
\* second false.
C12_CloseSessionIdempotent ==
  [][\A c \in Calls :
       /\ (calls[c].pc = "idle" /\ calls'[c].op = "closeSession"
             /\ calls'[c].sid \notin active) =>
            /\ calls'[c].pc = "done" /\ calls'[c].res = "false"
            /\ calls'[c].out = HandlerOut(calls'[c].plane, "closeSession", "false")
            /\ UNCHANGED <<active, sess, pg, browsers, engines, evVars>>
       /\ (calls[c].op = "closeSession" /\ InFlight(c) /\ calls'[c].pc = "done") =>
            /\ calls'[c].res = "true"
            /\ calls'[c].sid \notin active'
       /\ \A d \in Calls :
            ( /\ calls[c].op = "closeSession" /\ calls[c].pc = "done"
              /\ calls[c].res = "true"
              /\ calls[d].pc = "idle" /\ calls'[d].op = "closeSession"
              /\ calls'[d].sid = calls[c].sid ) =>
                calls'[d].res = "false"]_vars

\* Two closeSession calls on one id, answered true and then false.
C12_Witness ==
  \E c, d \in Calls :
    /\ calls[c].op = "closeSession" /\ calls[c].pc = "done"
    /\ calls[d].op = "closeSession" /\ calls[d].pc = "done"
    /\ calls[c].sid = calls[d].sid
    /\ calls[c].res = "true" /\ calls[d].res = "false"
    /\ closedEv[calls[c].sid] = 1

\* C13. Claim: CreatePage on the synchronous plane for a session id that is
\* not in the session table fails with the NotFound status, creates no page
\* and publishes no event.
C13_CreatePageNotFound ==
  [][\A c \in Calls :
       ( /\ calls[c].pc = "idle" /\ calls'[c].op = "createPage"
         /\ calls'[c].plane = "grpc" /\ calls'[c].sid \notin active ) =>
           /\ calls'[c].pc = "done"
           /\ calls'[c].reply = "NOT_FOUND"
           /\ UNCHANGED <<pg, sess, evVars>>]_vars

\* C14. Claim: when createPage is given a url and the navigation fails or
\* times out, createPage fails, the session stays in the session table with
\* its context open, and no page.created event is published.
C14_GotoFailureKeepsSession ==
  [][\A c \in Calls :
       ( /\ calls[c].op = "createPage" /\ calls[c].pc = "goto"
         /\ calls'[c].pc = "done" /\ calls'[c].res # "ok" ) =>
           /\ calls'[c].res = "error"
           /\ calls'[c].reply # "OK"
           /\ "page.created" \notin Range(calls'[c].out)
           /\ UNCHANGED <<active, sess, pcreatedEv>>
           /\ calls[c].sid \in active'
           /\ sess'[calls[c].sid].ctx = "open"]_vars

\* A CreatePage with a url has failed in the navigation; its session is in
\* the table with the context open and no page.created was published.
C14_Witness ==
  \E c \in Calls :
    /\ calls[c].op = "createPage" /\ calls[c].pc = "done" /\ calls[c].url
    /\ calls[c].res = "error" /\ calls[c].pid # 0 /\ calls[c].wr
    /\ calls[c].sid \in active /\ CtxUsable(calls[c].sid)
    /\ pcreatedEv[calls[c].pid] = 0

\* C15. Claim: with a clock that never goes back, the lastActivity of every
\* session never decreases, and each getSession, getPage, createPage and
\* successful closePage on a session sets it to the current time.
TouchingOps == {"getSession", "createPage", "closePage"} \cup PageVerbs

C15_ActivityMonotone ==
  [][/\ now' >= now
     /\ \A s \in Sids : sess'[s].last >= sess[s].last
     /\ \A c \in Calls :
          /\ ( /\ calls[c].pc = "idle" /\ calls'[c].op \in TouchingOps
               /\ calls'[c].sid \in active ) =>
                 sess'[calls'[c].sid].last = now'
          /\ ( /\ calls[c].op = "createPage" /\ calls[c].pc = "newPage"
               /\ calls'[c].pid # 0 ) =>
                 sess'[calls[c].sid].last = now'
          /\ ( /\ calls[c].op = "closePage" /\ InFlight(c)
               /\ calls'[c].res = "true"
               /\ calls[c].pid \in sess[calls[c].sid].pages ) =>
                 sess'[calls[c].sid].last = now']_vars

\* A ClosePage has succeeded on a session that was created at an earlier
\* time, and the session's lastActivity is the current time.
C15_Witness ==
  \E c \in Calls :
    /\ calls[c].op = "closePage" /\ calls[c].pc = "done"
    /\ calls[c].res = "true"
    /\ calls[c].sid \in active
    /\ now = MaxTime /\ sess[calls[c].sid].last = now

\* C16. Claim: a connection from which no ping was received for more than
\* 60 s is closed by the server at the next heartbeat check, the checks of a
\* connection being 25 s apart; a connection whose last ping is at most 60 s
\* old at every check is never closed by the heartbeat.
HeartbeatRan(k) ==
  /\ conns[k].timer
  /\ conns'[k].timer # conns[k].timer \/ conns'[k].beat # conns[k].beat

C16_CheckStep ==
  \A k \in Conns :
    LET age == wsNow - conns[k].lastPing IN
    /\ (HeartbeatRan(k) /\ conns[k].st = "open" /\ age > PingTimeoutTicks) =>
         conns'[k].st = "closing" /\ conns'[k].by = "heartbeat"
    /\ (HeartbeatRan(k) /\ age <= PingTimeoutTicks) =>
         /\ conns'[k].st = conns[k].st /\ conns'[k].by = conns[k].by
         /\ conns[k].reg => conns'[k].beat = wsNow + HeartbeatTicks
    /\ (conns'[k].by = "heartbeat" /\ conns[k].by # "heartbeat") =>
         HeartbeatRan(k) /\ age > PingTimeoutTicks

C16_CheckDue ==
  \A k \in Conns :
    conns[k].st = "open" =>
      /\ conns[k].timer
      /\ conns[k].beat >= wsNow /\ conns[k].beat <= wsNow + HeartbeatTicks

C16_HeartbeatClosesSilent == []C16_CheckDue /\ [][C16_CheckStep]_vars

\* A connection that pinged after it was accepted, then stayed silent, and
\* was closed by the first check that found the ping more than 60 s old.
C16_Witness ==
  \E k \in Conns :
    /\ conns[k].by = "heartbeat"
    /\ conns[k].beat - conns[k].lastPing = PingTimeoutTicks + 1
    /\ (conns[k].beat - conns[k].lastPing) % HeartbeatTicks # 0

\* C17. Claim: when the event plane shuts down, every open connection is
\* sent a draining notice before the server closes it: the last frame a
\* connection closed by stop() was sent is the notice.
C17_DrainingNotice ==
  \A k \in Conns : conns[k].by = "stop" => conns[k].frame = "draining"

\* C18. Claim: a broadcast on topic T is sent to a connection if and only
\* if the connection is open and its subscription set at that moment holds
\* T or the wildcard '*'; hence after it unsubscribed from T, holding no
\* '*', no later broadcast on T is sent to it.
C18_BroadcastToSubscribers ==
  [][\A k \in Conns :
       IF lastBc' # lastBc
       THEN (conns'[k].rx # conns[k].rx) <=>
              ( /\ conns[k].st = "open"
                /\ lastBc'.topic \in conns[k].subs \/ "*" \in conns[k].subs )
       ELSE conns'[k].rx = conns[k].rx]_vars

\* An open connection that received a broadcast, then unsubscribed, and was
\* not sent the latest broadcast, on a topic it no longer subscribes to.
C18_Witness ==
  \E k \in Conns :
    /\ conns[k].st = "open" /\ conns[k].rx = 1
    /\ conns[k].frame = "unsubscribed" /\ conns[k].subs = {}
    /\ lastBc.topic = "session.created" /\ lastBc.flip = 0

\* C19. Claim: a connection that subscribed to 'session.*' and 'page.*', as
\* the README client does, is sent the session.created, session.closed,
\* page.created and page.closed broadcasts.
C19_PatternSubscription ==
  [][\A k \in Conns :
       ( /\ lastBc' # lastBc /\ lastBc'.topic \in EventTopics
         /\ conns[k].st = "open"
         /\ {"session.*", "page.*"} \subseteq conns[k].subs ) =>
           conns'[k].rx # conns[k].rx]_vars

\* C20. Claim: in every state in which the health check is answered, it
\* reports ready=true exactly when a createSession issued in that state
\* would pass admission, and status=healthy exactly when ready is true.
C20_ReadyIffAdmits ==
  HealthServed =>
    /\ HealthReady <=> ~AtCapacity
    /\ HealthStatus = "healthy" <=> HealthReady

\* C21. Claim: start() either ends with exactly maxBrowsers engines in the
\* engine list or fails; when one of the initial launches fails, neither
\* control plane starts serving, and close() is called on every engine
\* launched before the failure before the process exits.
C21_StartStep ==
  /\ (phase = "starting" /\ phase' = "pool") => Len(browsers') = maxBrowsers
  /\ (phase = "starting" /\ phase' \notin {"starting", "pool"}) =>
       /\ phase' = "failedLaunch"
       /\ shut' = "inProgress" /\ stopPc' = "sessions"
  /\ phase = "failedLaunch" =>
       /\ phase' = "failedLaunch"
       /\ (stopPc = "sessions" /\ stopPc' = "engines") =>
            stopEng' = {e \in Eids : engines[e] = "up"}
       /\ (~exited /\ exited') => stopPc = "done" /\ browsers = <<>>

C21_StartAllOrNothing == [][C21_StartStep]_vars

\* C22. Claim: every browser-action message read from a connection, also
\* one with an unknown action, an unknown session or page, or no payload,
\* results in exactly one structured reply (browser-action-result or error)
\* to the sender, and never in a failure that shuts the service down.
C22_ActionAnswered ==
  [][\A k \in Conns :
       conns'[k].rq # conns[k].rq =>
         /\ conns'[k].rs # conns[k].rs
         /\ conns'[k].frame \in {"browser-action-result", "error"}
         /\ shut' = shut /\ exited' = exited]_vars

\* C23. Claim: the operations that change the pool state are serialized: no
\* createSession, closeSession, createPage, closePage, reaper sweep or
\* shutdown drain touches the session table, the page tables or the engine
\* list between the first and the last access of another one; so at most
\* one of them is between its first and its last access at any time.
BetweenAccesses(c) ==
  calls[c].pc \in {"launch", "newContext", "closePages", "closeCtx",
                   "newPage", "closePage"}

C23_Serialized ==
  Cardinality({c \in Calls : BetweenAccesses(c)})
    + Cardinality(BusySweeps)
    + (IF stopPc \in {"sessions", "engines"} THEN 1 ELSE 0) <= 1

\* C24. Claim: closePage returns true at most once for every page, under
\* any interleaving of closePage calls on the same page, so that at most one
\* page.closed event is published per page.
C24_AtMostOnePageClosed == \A q \in Pids : pclosedEv[q] <= 1

InitEngines == InitFleet({"api"}, FALSE, FALSE, {1, 2}, {}, Eids)

NextEngines ==
  \/ StartUp
  \/ \E e \in Eids : Disconnect(e)
  \/ \E c \in Calls, p \in planes : CreateSessionBegin(c, p)
  \/ \E c \in Calls, ok \in BOOLEAN : CreateSessionLaunched(c, ok)
  \/ \E c \in Calls, ok \in BOOLEAN : CreateSessionContext(c, ok)

SpecEngines == InitEngines /\ [][NextEngines]_vars

\* C26. Claim: when an engine disconnects it is removed from the engine
\* list, and no createSession that starts after the removal creates its
\* context on that engine.
Gone(e) == engines[e] \in {"disconnected", "closed"}

C26_Listed == \A e \in Eids : Gone(e) => e \notin Range(browsers)

C26_Chosen ==
  \A c \in Calls :
    /\ ( /\ calls'[c].op = "createSession" /\ calls'[c].eng # 0
         /\ calls'[c].eng # calls[c].eng ) =>
           ~Gone(calls'[c].eng) /\ engines'[calls'[c].eng] = "up"
    /\ ( /\ calls[c].op = "createSession" /\ calls[c].pc = "newContext"
         /\ calls'[c] # calls[c] /\ active' # active ) =>
           \E s \in active' \ active :
             sess'[s].eng = calls[c].eng /\ engines[calls[c].eng] = "up"

C27_Step ==
  \A c \in Calls :
    /\ ( /\ calls[c].pc \notin {"launch", "newContext"}
         /\ calls'[c].op = "createSession" /\ calls'[c].pc = "newContext" ) =>
           browsers # <<>> /\ calls'[c].eng = browsers[1]
    /\ ( /\ calls[c].pc \notin {"launch", "newContext"}
         /\ calls'[c].op = "createSession" /\ calls'[c].pc = "launch" ) =>
           browsers = <<>>
    /\ ( /\ calls[c].op = "createSession" /\ calls[c].pc = "launch"
         /\ calls'[c].pc = "newContext" ) =>
           /\ engines[calls'[c].eng] = "none"
           /\ engines'[calls'[c].eng] = "up"
           /\ calls'[c].eng = browsers'[1]
    /\ ( /\ calls[c].op = "createSession" /\ calls[c].pc = "newContext"
         /\ calls'[c] # calls[c] /\ active' # active ) =>
           \A s \in active' \ active : sess'[s].eng = calls[c].eng

C27_FirstEngineSelected == [][C27_Step]_vars

\* Sessions are closed while createPage calls on them are in flight.
InitClosing == InitWith({"api"}, FALSE, FALSE, {1})

NextClosing ==
  \/ StartUp
  \/ \E c \in Calls, p \in planes : CreateSessionBegin(c, p)
  \/ \E c \in Calls, ok \in BOOLEAN : CreateSessionContext(c, ok)
  \/ \E c \in Calls, p \in planes, s \in Sids : CloseSessionBegin(c, p, s)
  \/ \E c \in Calls, ok \in BOOLEAN : CloseSessionPages(c, ok)
  \/ \E c \in Calls, ok \in BOOLEAN : CloseSessionDone(c, ok)
  \/ \E c \in Calls, p \in planes, s \in Sids, url \in BOOLEAN :
       CreatePageBegin(c, p, s, url)
  \/ \E c \in Calls, ok \in BOOLEAN : CreatePageNew(c, ok)
  \/ \E c \in Calls, ok \in BOOLEAN : CreatePageGoto(c, ok)

SpecClosing == InitClosing /\ [][NextClosing]_vars

\* C28. Claim: closed is terminal for a session: once it is removed from the
\* table it never comes back, no page is registered in it afterwards, and no
\* page.created for one of its pages is published after its session.closed.
Removed(s) == sess[s].ctx # "none" /\ s \notin active

C28_Step ==
  /\ \A s \in Sids : Removed(s) =>
        s \notin active' /\ sess'[s].pages \subseteq sess[s].pages
  /\ \A q \in Pids : pcreatedEv'[q] # pcreatedEv[q] =>
        closedEv[pg'[q].sid] = 0

C28_ClosedIsTerminal == [][C28_Step]_vars

\* C29. Claim: a createPage call that fails leaves the page table of its
\* session as it was before the call: the page it opened, whose id no
\* caller was given, is not registered afterwards.
C29_Step ==
  \A c \in Calls :
    ( /\ calls[c].op = "createPage" /\ calls[c].pc \in {"newPage", "goto"}
      /\ calls'[c].pc = "done" /\ calls'[c].res = "error" ) =>
        \A s \in Sids : sess'[s].pages \subseteq sess[s].pages \ {calls[c].pid}

C29_FailedCreatePageFrame == [][C29_Step]_vars

\* C30. Claim: the engine list never holds more than maxBrowsers engines,
\* whatever the interleaving of start, disconnections and createSession
\* calls.
C30_EnginesBounded == Len(browsers) <= maxBrowsers

\* C31. Claim: the reaper closes a session only if the session is still
\* expired at the moment the reaper begins closing it: a session refreshed
\* after the expired list was computed is not closed by that sweep.
C31_Step ==
  \A k \in Sweeps :
    ( /\ sweeps'[k].pc \in {"closePages", "closeCtx"}
      /\ (sweeps[k].pc = "idle" \/ sweeps'[k].i # sweeps[k].i) ) =>
        IsExpired(sweeps'[k].exp[sweeps'[k].i])

C31_ReaperRechecksExpiry == [][C31_Step]_vars

\* The concurrent callers of Spec, with termination signals and fatal-error
\* events that also arrive while a shutdown is in progress.
InitSignals == InitWith({"api"}, FALSE, FALSE, {1})

NextSignals ==
  \/ Next
  \/ SignalAgain

SpecSignals == InitSignals /\ [][NextSignals]_vars

\* C32. Claim: whatever signals and fatal-error events arrive, the process
\* exits only after shutdown has finished: at exit no context or engine is
\* still being closed by the drain.
C32_ExitAfterShutdown ==
  exited => /\ stopPc = "done"
            /\ stopPages = {} /\ stopCtx = {} /\ stopEng = {}

\* C33. Claim: every session.closed published for a session is preceded by
\* a session.created for that session, also when its createSession call was
\* started before the broadcasting was wired to the pool.
C33_ClosedAfterCreated ==
  \A s \in Sids : closedEv[s] > 0 => createdEv[s] > 0

\* C34. Claim: after stop() has completed the session table is empty, and no
\* session is registered once the drain has cleared the table, even when
\* createSession calls are in flight while stop() runs.
C34_Drained == stopPc = "done" => active = {}

C34_Step == stopPc \in {"engines", "done"} => active' \subseteq active

C34_StopEmptiesTable == []C34_Drained /\ [][C34_Step]_vars

\* Clients send browser-action messages over their connections, each after
\* the action before it was answered, and close their connections at any
\* time.
InitWsActs == InitPeers({"ws", "paced"}, FALSE, FALSE, {1}, Conns)

NextWsActs ==
  \/ StartUp
  \/ \E k \in Conns : WsConnect(k)
  \/ \E k \in Conns : WsActionRejected(k)
  \/ \E k \in Conns, c \in Calls : WsCreateSession(k, c)
  \/ \E c \in Calls, ok \in BOOLEAN : WsCreateSessionDone(c, ok)
  \/ \E k \in Conns, c \in Calls, s \in Sids : WsCreatePage(k, c, s)
  \/ \E c \in Calls, ok \in BOOLEAN : WsCreatePageDone(c, ok)
  \/ \E k \in Conns, c \in Calls, verb \in PageVerbs, s \in Sids, q \in Pids :
       WsActBegin(k, c, verb, s, q)
  \/ \E c \in Calls, ok \in BOOLEAN : WsActDone(c, ok)
  \/ \E k \in Conns : WsClientClose(k)

SpecWsActs == InitWsActs /\ [][NextWsActs]_vars

\* C35. Claim: an event-plane action that fails sends its connection exactly
\* one browser-action-result with success=false and publishes no
\* browser.<action> broadcast; one that succeeds sends one result with
\* success=true and publishes exactly one browser.<action> broadcast.
\* Stated of the step in which the handler of an action finishes.
ActionSettles(k) ==
  \/ conns'[k].rq # conns[k].rq /\ calls' = calls
  \/ \E c \in Calls :
       calls[c].conn = k /\ InFlight(c) /\ calls'[c].pc = "idle"

ActionOutcome(k) ==
  /\ conns'[k].rs # conns[k].rs
  /\ conns'[k].succ \in {"true", "false"}
  /\ conns'[k].succ = "false" => lastBc' = lastBc
  /\ conns'[k].succ = "true" =>
       /\ lastBc'.flip # lastBc.flip
       /\ \E c \in Calls : /\ calls[c].conn = k /\ InFlight(c)
                            /\ calls'[c].pc = "idle"
                            /\ lastBc'.topic = ActionTopic(calls[c].op)

C35_Original ==
  [][\A k \in Conns : ActionSettles(k) => ActionOutcome(k)]_vars

\* As amended: the result is sent when the connection is still registered
\* and open at that step; otherwise no result is sent, and the broadcast of
\* a successful action is published all the same.
C35_Step ==
  \A k \in Conns :
    ActionSettles(k) =>
      IF conns[k].reg /\ conns[k].st = "open"
      THEN ActionOutcome(k)
      ELSE /\ conns'[k].rs = conns[k].rs
           /\ lastBc' # lastBc =>
                \E c \in Calls : /\ calls[c].conn = k /\ InFlight(c)
                                 /\ calls'[c].pc = "idle"
                                 /\ lastBc'.topic = ActionTopic(calls[c].op)

C35_ActionResult == [][C35_Step]_vars

\* A click that was awaited has succeeded on a connection that is still
\* open: the result is out and browser.click was broadcast.
C35_Witness ==
  \E k \in Conns :
    /\ conns[k].st = "open" /\ conns[k].succ = "true"
    /\ conns[k].frame = "browser-action-result"
    /\ lastBc = [topic |-> "browser.click", flip |-> 0]
    /\ \E q \in Pids : pg[q].st = "open"

\* The clients of SpecWsActs, now sending actions while earlier actions of
\* theirs are still awaited.
InitWsOrder == InitPeers({"ws"}, FALSE, FALSE, {1}, Conns)

SpecWsOrder == InitWsOrder /\ [][NextWsActs]_vars

\* C36. Claim: the browser-action-result messages reach a connection in the
\* order in which its browser-action messages were received: when a result
\* is sent, no action the connection sent earlier is still awaited.
C36_Step ==
  \A k \in Conns :
    conns'[k].rs # conns[k].rs =>
      \A d \in Calls :
        (calls[d].conn = k /\ InFlight(d) /\ calls'[d].pc # "idle") =>
          calls'[d].ord < calls[d].ord

C36_ResultsInOrder == [][C36_Step]_vars

\* The reaper when the engine never settles the page closes of one session:
\* the first session that was created.  The interval keeps firing after the
\* clock of the model has stopped, and a sweep that awaits a page close of
\* that session, which it does for ever, leaves its slot to the next sweep.
Hung == Min(Sids)

InitHang == InitWith({"api"}, FALSE, FALSE, {2})

AwaitsHung(k) ==
  /\ sweeps[k].pc = "closePages"
  /\ sweeps[k].exp[sweeps[k].i] = Hung

\* The cleanup interval fires once more; the clock stays where it stopped.
TickOn ==
  /\ ~exited /\ PoolStarted
  /\ now = MaxTime
  /\ ~due /\ cleanupTask
  /\ due' = TRUE
  /\ UNCHANGED <<modeVars, wsVars, svcVars, now, cleanupTask, browsers, engines,
                 active, sess, pg, calls, sweeps, stopVars, evVars>>

\* The interval callback runs while the sweep before it awaits the page
\* close that never settles: it collects the expired sessions and calls
\* closeSession on the first.
SweepAgain(k) ==
  /\ ~exited /\ due
  /\ ExpiredSessions # <<>>
  /\ AwaitsHung(k)
  /\ LET s == ExpiredSessions[1] IN
     /\ sweeps' = [sweeps EXCEPT ![k] = [pc |-> SessionCloseStart(s),
                                         exp |-> ExpiredSessions, i |-> 1,
                                         wr |-> wired]]
     /\ sess' = [sess EXCEPT ![s] = SessionAfterCloseCall(s)]
  /\ due' = FALSE
  /\ UNCHANGED <<modeVars, wsVars, svcVars, now, cleanupTask, browsers, engines,
                 active, pg, calls, stopVars, evVars>>

SweepPagesSettle(k) ==
  /\ \E ok \in BOOLEAN : SweepPages(k, ok)
  /\ ~AwaitsHung(k)

SweepCtxSettle(k) == \E ok \in BOOLEAN : SweepCtx(k, ok)

NextHang ==
  \/ StartUp
  \/ \E c \in Calls, p \in planes : CreateSessionBegin(c, p)
  \/ \E c \in Calls, ok \in BOOLEAN : CreateSessionContext(c, ok)
  \/ \E c \in Calls, p \in planes, s \in Sids : CreatePageBegin(c, p, s, FALSE)
  \/ \E c \in Calls, ok \in BOOLEAN : CreatePageNew(c, ok)
  \/ Tick
  \/ TickOn
  \/ SweepNothing
  \/ \E k \in Sweeps : SweepStart(k)
  \/ \E k \in Sweeps : SweepAgain(k)
  \/ \E k \in Sweeps : SweepPagesSettle(k)
  \/ \E k \in Sweeps : SweepCtxSettle(k)
  \/ \E k \in Sweeps : SweepRetire(k)

\* The timer fires, its callback runs, and every engine operation but the
\* page closes of the hung session settles.
FairHang ==
  /\ WF_vars(Tick) /\ WF_vars(TickOn) /\ WF_vars(SweepNothing)
  /\ \A k \in Sweeps :
       /\ WF_vars(SweepStart(k)) /\ WF_vars(SweepAgain(k))
       /\ WF_vars(SweepPagesSettle(k)) /\ WF_vars(SweepCtxSettle(k))
       /\ WF_vars(SweepRetire(k))

SpecHang == InitHang /\ [][NextHang]_vars /\ FairHang

\* C37. Claim: when the close of one expired session never completes, every
\* other session whose idle time exceeds the timeout is still closed in the
\* end, by that sweep or by a later one, unless it is used again first.
C37_OthersReaped ==
  \A s \in Sids \ {Hung} :
    (s \in active /\ IsExpired(s)) ~> (s \notin active \/ ~IsExpired(s))

\* C38. Claim: Acquire on the synchronous plane answers RESOURCE_EXHAUSTED
\* exactly when the session table was full as the call was admitted; a failed
\* engine launch or context creation is answered with INTERNAL.
C38_Step ==
  \A c \in Calls :
    ( /\ calls[c].pc # "done" /\ calls'[c].pc = "done"
      /\ calls'[c].op = "createSession" /\ calls'[c].plane = "grpc" ) =>
        /\ calls'[c].reply = "RESOURCE_EXHAUSTED" <=> calls'[c].res = "capacity"
        /\ calls'[c].res = "error" => calls'[c].reply = "INTERNAL"

C38_AcquireFaults == [][C38_Step]_vars

----------------------------------------------------------------------------
\* Monitoring: GetStats and HealthCheck of the gRPC server, get-stats of the
\* event plane, and a health-check message there, which handleMessage has
\* no case for

MonitorOps == {"getStats", "healthCheck"}

\* Statistics collected through getSession, which refreshes each session.
GrpcMonitorTouching(c, op) ==
  /\ IdleSlots # {} /\ c = Min(IdleSlots)
  /\ PlaneOpen("grpc")
  /\ calls' = [calls EXCEPT ![c] = Settled(NewCall("grpc", op), "ok", <<>>)]
  /\ sess' = [s \in Sids |->
       IF s \in active THEN [sess[s] EXCEPT !.last = now] ELSE sess[s]]
  /\ UNCHANGED <<modeVars, wsVars, svcVars, now, due, cleanupTask, browsers,
                 engines, active, pg, sweeps, stopVars, evVars>>

\* BrowserPoolGrpcServer.getStats / healthCheck: BrowserPool.getStats() and
\* getHealthStatus() read the engine list and the session table, map
\* BrowserSession.getStats() over the sessions, and the handler calls back.
GrpcMonitor(c, op) ==
  /\ IdleSlots # {} /\ c = Min(IdleSlots)
  /\ PlaneOpen("grpc")
  /\ calls' = [calls EXCEPT ![c] = Settled(NewCall("grpc", op), "ok", <<>>)]
  /\ UNCHANGED <<modeVars, wsVars, svcVars, now, due, cleanupTask, browsers,
                 engines, active, sess, pg, sweeps, stopVars, evVars>>

\* handleGetStats: the statistics go out in a 'stats' frame.
WsGetStats(k) ==
  /\ WsUp /\ conns[k].reg
  /\ conns' = [conns EXCEPT ![k] = Sent(k, "stats")]
  /\ UNCHANGED <<modeVars, wsEnv, svcVars, now, due, cleanupTask, browsers,
                 engines, active, sess, pg, calls, sweeps, stopVars, evVars>>

\* A 'health-check' message: the default branch of handleMessage answers
\* with an 'error' frame.
WsHealthCheck(k) ==
  /\ WsUp /\ conns[k].reg
  /\ conns' = [conns EXCEPT ![k] = Sent(k, "error")]
  /\ UNCHANGED <<modeVars, wsEnv, svcVars, now, due, cleanupTask, browsers,
                 engines, active, sess, pg, calls, sweeps, stopVars, evVars>>

\* SpecMonitor: sessions that idle towards the timeout while a gRPC client
\* and an event-plane client ask for statistics and health.
InitMonitor == InitPeers({"grpc", "paced"}, TRUE, TRUE, {1}, Conns)

NextMonitor ==
  \/ StartUp
  \/ \E c \in Calls : CreateSessionBegin(c, "grpc")
  \/ \E c \in Calls, ok \in BOOLEAN : CreateSessionContext(c, ok)
  \/ \E c \in Calls, op \in MonitorOps : GrpcMonitor(c, op)
  \/ \E c \in Calls : Retire(c)
  \/ \E k \in peers : WsConnect(k)
  \/ \E k \in Conns : WsGetStats(k)
  \/ \E k \in Conns : WsHealthCheck(k)
  \/ Reaper

SpecMonitor == InitMonitor /\ [][NextMonitor]_vars

\* A step in which a monitoring request is served: a gRPC call of one of
\* the two methods is answered, or a connection is sent a 'stats' or an
\* 'error' frame.
Monitors ==
  \/ \E c \in Calls : calls[c].pc = "idle" /\ calls'[c].op \in MonitorOps
  \/ \E k \in Conns : /\ conns' # conns
                       /\ conns' = [conns EXCEPT ![k] = Sent(k, "stats")]
  \/ \E k \in Conns : /\ conns' # conns
                       /\ conns' = [conns EXCEPT ![k] = Sent(k, "error")]

\* C39. Claim: get-stats and health-check, on either control plane, leave
\* the session table, the page tables, the engine list and every session's
\* lastActivity as they were, so the set of expired sessions is the same
\* after the call as before.
C39_Step ==
  Monitors => /\ UNCHANGED <<active, sess, pg, browsers, engines>>
              /\ \A s \in active : IsExpired(s)' = IsExpired(s)

C39_MonitoringReadsOnly == [][C39_Step]_vars

\* Statistics and health were served on both planes while a session had
\* idled past the timeout, and the session is still expired.
C39_Witness ==
  /\ \E c \in Calls : calls[c].pc = "done" /\ calls[c].op = "healthCheck"
  /\ \E k \in Conns : conns[k].frame = "stats"
  /\ \E s \in active : IsExpired(s)

====
